---- MODULE Spec2Model ----
(***************************************************************************)
(* cc-proxy: a reverse proxy in front of an Anthropic-style /v1/messages   *)
(* API.  The module models                                                 *)
(*   - the SSE consumers of the buffered response body                     *)
(*     (extract_streaming_stats, set_streaming_response_attributes),       *)
(*   - the /v1/messages handler, the primary forwarder with its TeeBody    *)
(*     tap, the compare dispatcher with its semaphore, and the mode        *)
(*     register.                                                           *)
(* Specifications:                                                         *)
(*   SpecSSE  the two SSE consumers applied to bounded event sequences     *)
(*   Spec     the server in compare mode with MaxReqs concurrent requests  *)
(*   SpecPair two requests in any mode, one compared with the other        *)
(*   SpecOne  one request followed in detail (headers, chunk sequences)    *)
(***************************************************************************)
EXTENDS Integers, Sequences, FiniteSets, TLC

VARIABLES
    mode,                   \* RuntimeMode.inner: the AtomicU8 cell
    config,                 \* ProxyConfig: anthropic_only_allowed, model_override; and the
                            \* build's serde_json feature preserve_order (fixed at launch)
    permits,                \* CompareDispatcher.semaphore: available permits
    stats,                  \* ProxyStats: the four counters
    reqs,                   \* one request context per /v1/messages request
    tasks,                  \* the compare task spawned for each request
    sse,                    \* SpecSSE: a buffered body and what the consumers did with it
    admin,                  \* the response to the last admin request, None before the first
    tracing_enabled,        \* AppState.tracing_enabled: the trace logging flag
    snap                    \* SpecStats: the amounts the callers added, the loads of the
                            \* snapshot in progress, and the snapshots taken

vars == <<mode, config, permits, stats, reqs, tasks, sse, admin, tracing_enabled, snap>>

(***************************************************************************)
(* Bounds of the model.                                                    *)
(***************************************************************************)
MaxEvents == 3      \* SSE events in a buffered body (SpecSSE)
MaxReqs == 2        \* /v1/messages requests handled concurrently (Spec)
MaxConcurrent == 1  \* target.max_concurrent: the capacity of the compare semaphore
MaxChunks == 2      \* chunks of an upstream response body
MaxFields == 3      \* members written in a request body (SpecRewrite)
MaxMsgs == 2        \* messages of a request (SpecValidate)
MaxHeaders == 2     \* headers of a client request (SpecHeaders)
MaxOps == 3         \* counter updates made by concurrent callers (SpecStats)
MaxSnaps == 2       \* snapshots taken (SpecStats)
\* The number of values of a counter.  An AtomicU64 has 2^64; the model
\* scales the width down, and with it the amounts a caller can add, which
\* in the program are any u64 read from an upstream response.
U64Modulus == 65536

--------------------------------------------------------------------------
(***************************************************************************)
(* Optional values are sets with at most one element: None is {} and       *)
(* Some(x) is {x}.                                                         *)
(***************************************************************************)
None == {}
Some(x) == {x}
Max(S) == CHOOSE x \in S : \A y \in S : y <= x

\* serde_json Value::as_u64: Some only for a non-negative integer.
AsU64(o) == {n \in o : n >= 0}
\* serde_json Value::as_i64: Some for any integer in the i64 range (every
\* integer of the model is).
AsI64(o) == o

(***************************************************************************)
(* The buffered body as a sequence of tokens: a line "event: <ev>", a line *)
(* "data: <d>", any other line, and the blank line that makes the "\n\n"   *)
(* separator.  A data payload d is the JSON document after "data: ", kept  *)
(* as a record of the fields the consumers read (ok = it parses as JSON).  *)
(***************************************************************************)
NoData ==
    [ok |-> FALSE, role |-> None, m_in |-> None, u_in |-> None, u_out |-> None,
     cb |-> FALSE, cb_type |-> None, cb_name |-> None,
     index |-> None, delta_type |-> None, delta_str |-> None, content |-> None]
JsonData == [NoData EXCEPT !.ok = TRUE]

EventLine(ev) == [t |-> "event", ev |-> ev, d |-> NoData]
DataLine(d)   == [t |-> "data", ev |-> "", d |-> d]
OtherLine     == [t |-> "other", ev |-> "", d |-> NoData]
BlankLine     == [t |-> "sep", ev |-> "", d |-> NoData]
BadBytes      == [t |-> "bad", ev |-> "", d |-> NoData]   \* bytes that are not UTF-8
\* A JSON document (a non-streaming body) is its text up to the closing
\* brace, then the closing brace: only the two together parse.
JsonOpen(d)   == [t |-> "json", ev |-> "", d |-> d]
JsonClose     == [t |-> "close", ev |-> "", d |-> NoData]

\* std::str::from_utf8(response_bytes).is_ok()
IsUtf8(buf) == \A i \in 1..Len(buf) : buf[i].t # "bad"

\* One well-formed SSE frame: "event: ev\ndata: d\n\n".
Frame(ev, d) == <<EventLine(ev), DataLine(d), BlankLine>>

\* body_str.split("\n\n"): the pieces between separators, empty ones included.
RECURSIVE SplitEvents(_)
SplitEvents(buf) ==
    LET seps == {i \in 1..Len(buf) : buf[i].t = "sep"} IN
    IF seps = {} THEN <<buf>>
    ELSE LET i == CHOOSE k \in seps : \A j \in seps : k <= j
         IN <<SubSeq(buf, 1, i - 1)>> \o SplitEvents(SubSeq(buf, i + 1, Len(buf)))

\* The loop over event_chunk.lines(): the last "event: " line and the last
\* "data: " line of the chunk win.
LastLine(chunk, kind) ==
    LET idx == {i \in 1..Len(chunk) : chunk[i].t = kind} IN
    IF idx = {} THEN None ELSE Some(chunk[Max(idx)])

event_type(chunk) == {l.ev : l \in LastLine(chunk, "event")}
data_str(chunk)   == {l.d : l \in LastLine(chunk, "data")}

\* The events a consumer acts on: a chunk without a data line, or whose data
\* is not JSON, is skipped (continue).
Parsed(chunk) == {d \in data_str(chunk) : d.ok}

(***************************************************************************)
(* Stats calls.  A consumer's effect on ProxyStats is the sequence of      *)
(* calls it makes.                                                         *)
(***************************************************************************)
Call(f, n) == [f |-> f, n |-> n]

\* One iteration of the loop of extract_streaming_stats.
stats_event(chunk, seen) ==
    LET ds == Parsed(chunk)
        d  == CHOOSE x \in ds : TRUE
        et == event_type(chunk)
    IN  IF ds = {} THEN [seen |-> seen, calls |-> <<>>]
        ELSE IF et = Some("message_start") THEN
            LET inp == AsU64(d.m_in) IN
            IF inp # {}
            THEN [seen |-> TRUE,
                  calls |-> <<Call("add_input_tokens", CHOOSE n \in inp : TRUE)>>]
            ELSE [seen |-> seen, calls |-> <<>>]
        ELSE IF et = Some("message_delta") THEN
            LET out == AsU64(d.u_out)
                inp == AsU64(d.u_in)
                c1  == IF out # {}
                       THEN <<Call("add_output_tokens", CHOOSE n \in out : TRUE)>>
                       ELSE <<>>
            IN  IF ~seen /\ inp # {}
                THEN [seen |-> TRUE,
                      calls |-> c1 \o <<Call("add_input_tokens", CHOOSE n \in inp : TRUE)>>]
                ELSE [seen |-> seen, calls |-> c1]
        ELSE IF et = Some("content_block_start") THEN
            IF d.cb /\ d.cb_type = Some("tool_use")
            THEN [seen |-> seen, calls |-> <<Call("add_tool_calls", 1)>>]
            ELSE [seen |-> seen, calls |-> <<>>]
        ELSE [seen |-> seen, calls |-> <<>>]

RECURSIVE StatsLoop(_, _, _)
StatsLoop(evs, seen, calls) ==
    IF evs = <<>> THEN calls
    ELSE LET s == stats_event(Head(evs), seen)
         IN StatsLoop(Tail(evs), s.seen, calls \o s.calls)

\* extract_streaming_stats: the calls made for a (UTF-8) buffered body.
extract_streaming_stats(buf) ==
    IF ~IsUtf8(buf) THEN <<>> ELSE StatsLoop(SplitEvents(buf), FALSE, <<>>)

(***************************************************************************)
(* set_streaming_response_attributes: the accumulated state of the walk    *)
(* over the events, then the attributes set on the span.  A string is a    *)
(* sequence of pieces, push_str is concatenation.                          *)
(***************************************************************************)
ContentBlock(bt, name) ==
    [block_type |-> bt, text |-> <<>>, tool_name |-> name, tool_args_json |-> <<>>]

AttrInit == [input_tokens |-> None, output_tokens |-> None, role |-> None, blocks |-> <<>>]

\* One iteration of the loop of set_streaming_response_attributes.
attr_event(chunk, st) ==
    LET ds == Parsed(chunk)
        d  == CHOOSE x \in ds : TRUE
        et == event_type(chunk)
    IN  IF ds = {} THEN st
        ELSE IF et = Some("message_start") THEN
            LET it == AsI64(d.m_in) IN
            [st EXCEPT !.role = IF d.role # {} THEN d.role ELSE @,
                       !.input_tokens = IF it # {} THEN it ELSE @]
        ELSE IF et = Some("content_block_start") THEN
            IF d.cb
            THEN LET bt == IF d.cb_type # {} THEN CHOOSE x \in d.cb_type : TRUE ELSE "text"
                     nm == IF bt = "tool_use" THEN d.cb_name ELSE None
                 IN [st EXCEPT !.blocks = Append(@, ContentBlock(bt, nm))]
            ELSE st
        ELSE IF et = Some("content_block_delta") THEN
            LET ix == AsU64(d.index)
                i  == (CHOOSE n \in ix : TRUE) + 1     \* blocks.get_mut(idx), 0-based
            IN  IF ix # {} /\ i <= Len(st.blocks) /\ d.delta_str # {}
                THEN LET piece == CHOOSE x \in d.delta_str : TRUE IN
                     IF d.delta_type = Some("text_delta")
                     THEN [st EXCEPT !.blocks[i].text = @ \o piece]
                     ELSE IF d.delta_type = Some("input_json_delta")
                     THEN [st EXCEPT !.blocks[i].tool_args_json = @ \o piece]
                     ELSE st
                ELSE st
        ELSE IF et = Some("message_delta") THEN
            LET ot == AsI64(d.u_out)
                it == AsI64(d.u_in)
            IN  [st EXCEPT !.output_tokens = IF ot # {} THEN ot ELSE @,
                           !.input_tokens = IF @ = {} /\ it # {} THEN it ELSE @]
        ELSE st

\* The loop ending at the first event it cannot parse (break for continue).
RECURSIVE AttrLoop_stops_at_bad_event(_, _)
AttrLoop_stops_at_bad_event(evs, st) ==
    IF evs = <<>> \/ Parsed(Head(evs)) = {} THEN st
    ELSE AttrLoop_stops_at_bad_event(Tail(evs), attr_event(Head(evs), st))

RECURSIVE AttrLoop(_, _)
AttrLoop(evs, st) ==
    IF evs = <<>> THEN st ELSE AttrLoop(Tail(evs), attr_event(Head(evs), st))

RECURSIVE JoinText(_)
JoinText(blocks) ==      \* text_parts.join("") over the non-empty text blocks
    IF blocks = <<>> THEN <<>>
    ELSE (IF Head(blocks).block_type = "text" THEN Head(blocks).text ELSE <<>>)
         \o JoinText(Tail(blocks))

RECURSIVE ToolCalls(_)
ToolCalls(blocks) ==     \* tool_calls.<j>.tool_call.function.{name, arguments}
    IF blocks = <<>> THEN <<>>
    ELSE LET b == Head(blocks) IN
         (IF b.block_type = "tool_use"
          THEN <<[name |-> b.tool_name,
                  arguments |-> IF b.tool_args_json # <<>>
                                THEN Some(b.tool_args_json) ELSE None]>>
          ELSE <<>>)
         \o ToolCalls(Tail(blocks))

\* The attributes a span has before any response attribute is set.
NoAttrs ==
    [output_value |-> None, role |-> None, content |-> None, tool_calls |-> <<>>,
     prompt |-> None, completion |-> None]

\* set_streaming_response_attributes: the span attributes set from the body.
set_streaming_response_attributes(attrs, buf) ==
    IF ~IsUtf8(buf) THEN attrs
    ELSE LET st == AttrLoop(SplitEvents(buf), AttrInit)
             txt == JoinText(st.blocks)
         IN [attrs EXCEPT
                !.output_value = Some(buf),
                !.role = IF st.role # {} THEN st.role ELSE @,
                !.tool_calls = ToolCalls(st.blocks),
                !.content = IF txt # <<>> THEN Some(txt) ELSE @,
                !.prompt = IF st.input_tokens # {} THEN st.input_tokens ELSE @,
                !.completion = IF st.output_tokens # {} THEN st.output_tokens ELSE @]


(***************************************************************************)
(* The non-streaming consumers: the buffered body is one JSON document.    *)
(***************************************************************************)
\* serde_json::from_slice(response_bytes): Some(document) when it parses.
from_slice(buf) ==
    IF Len(buf) = 2 /\ buf[1].t = "json" /\ buf[1].d.ok /\ buf[2].t = "close"
    THEN Some(buf[1].d) ELSE None

\* A content block of a response document.
Block(type, text, name, input) ==
    [type |-> type, text |-> text, name |-> name, input |-> input]

RECURSIVE CountToolUse(_)
CountToolUse(content) ==
    IF content = <<>> THEN 0
    ELSE (IF Head(content).type = Some("tool_use") THEN 1 ELSE 0)
         + CountToolUse(Tail(content))

\* extract_nonstreaming_stats: the calls made for a buffered body.
extract_nonstreaming_stats(buf) ==
    LET ps == from_slice(buf)
        body == CHOOSE x \in ps : TRUE
    IN  IF ps = {} THEN <<>>
        ELSE LET inp == AsU64(body.u_in)
                 out == AsU64(body.u_out)
                 n == IF body.content = {} THEN 0
                      ELSE CountToolUse(CHOOSE c \in body.content : TRUE)
             IN (IF inp # {} THEN <<Call("add_input_tokens", CHOOSE x \in inp : TRUE)>>
                 ELSE <<>>)
                \o (IF out # {} THEN <<Call("add_output_tokens", CHOOSE x \in out : TRUE)>>
                    ELSE <<>>)
                \o (IF n > 0 THEN <<Call("add_tool_calls", n)>> ELSE <<>>)

\* extract_and_record_stats
extract_and_record_stats(buf, is_streaming) ==
    IF is_streaming THEN extract_streaming_stats(buf) ELSE extract_nonstreaming_stats(buf)

RECURSIVE JoinBlockText(_)
JoinBlockText(content) ==
    IF content = <<>> THEN <<>>
    ELSE LET b == Head(content) IN
         (IF b.type = Some("text") /\ b.text # {} THEN CHOOSE t \in b.text : TRUE ELSE <<>>)
         \o JoinBlockText(Tail(content))

RECURSIVE BlockToolCalls(_)
BlockToolCalls(content) ==
    IF content = <<>> THEN <<>>
    ELSE LET b == Head(content) IN
         (IF b.type = Some("tool_use")
          THEN <<[name |-> b.name, arguments |-> b.input]>> ELSE <<>>)
         \o BlockToolCalls(Tail(content))

\* set_nonstreaming_response_attributes
set_nonstreaming_response_attributes(attrs, buf) ==
    LET ps == from_slice(buf)
        body == CHOOSE x \in ps : TRUE
    IN  IF ps = {} THEN attrs
        ELSE LET content == IF body.content = {} THEN <<>>
                            ELSE CHOOSE c \in body.content : TRUE
                 txt == JoinBlockText(content)
             IN [attrs EXCEPT
                    !.output_value = IF IsUtf8(buf) THEN Some(buf) ELSE @,
                    !.role = IF body.role # {} THEN body.role ELSE @,
                    !.tool_calls = BlockToolCalls(content),
                    !.content = IF txt # <<>> THEN Some(txt) ELSE @,
                    !.prompt = IF AsI64(body.u_in) # {} THEN AsI64(body.u_in) ELSE @,
                    !.completion = IF AsI64(body.u_out) # {} THEN AsI64(body.u_out) ELSE @]

\* set_response_attributes
set_response_attributes(attrs, buf, is_streaming) ==
    IF is_streaming THEN set_streaming_response_attributes(attrs, buf)
    ELSE set_nonstreaming_response_attributes(attrs, buf)

(***************************************************************************)
(* ProxyStats: four counters, each changed by an atomic fetch_add.         *)
(***************************************************************************)
StatsNew == [total_requests |-> 0, input_tokens |-> 0, output_tokens |-> 0, tool_calls |-> 0]

\* AtomicU64::fetch_add: the sum, wrapping around on overflow.
fetch_add(cell, n) == (cell + n) % U64Modulus

inc_requests(st)         == [st EXCEPT !.total_requests = fetch_add(@, 1)]
add_input_tokens(st, n)  == [st EXCEPT !.input_tokens = fetch_add(@, n)]
add_output_tokens(st, n) == [st EXCEPT !.output_tokens = fetch_add(@, n)]
add_tool_calls(st, n)    == [st EXCEPT !.tool_calls = fetch_add(@, n)]

\* The four counters in the order snapshot() loads them.
Counters == <<"total_requests", "input_tokens", "output_tokens", "tool_calls">>

\* Before any caller of SpecStats ran: nothing added, no load made, no
\* snapshot taken.
NoSnap == [ops |-> 0, added |-> StatsNew, cur |-> <<>>, taken |-> <<>>]

RECURSIVE ApplyCalls(_, _)
ApplyCalls(st, calls) ==
    IF calls = <<>> THEN st
    ELSE LET c == Head(calls)
             st1 == IF c.f = "add_input_tokens" THEN add_input_tokens(st, c.n)
                    ELSE IF c.f = "add_output_tokens" THEN add_output_tokens(st, c.n)
                    ELSE add_tool_calls(st, c.n)
         IN ApplyCalls(st1, Tail(calls))


(***************************************************************************)
(* The mode register (mode.rs): an AtomicU8 holding the discriminant.      *)
(***************************************************************************)
AnthropicOnly == "anthropic-only"
TargetOnly    == "target"
Compare       == "compare"
ProxyModes    == {AnthropicOnly, TargetOnly, Compare}

\* The cast with target given the discriminant of compare.
as_u8_target_as_compare(m) == IF m = AnthropicOnly THEN 0 ELSE 2
\* `mode as u8`
as_u8(m) == IF m = AnthropicOnly THEN 0 ELSE IF m = TargetOnly THEN 1 ELSE 2
\* ProxyMode::from_u8
from_u8(v) == IF v = 0 THEN AnthropicOnly ELSE IF v = 1 THEN TargetOnly ELSE Compare
\* RuntimeMode::get
get(cell) == from_u8(cell)

(***************************************************************************)
(* Headers: a header map is a sequence of <<name, value>> pairs (names are *)
(* lower case, as http::HeaderName keeps them).                            *)
(***************************************************************************)
CORRELATION_HEADER == "x-shadow-request-id"

HOP_BY_HOP_HEADERS ==
    {"host", "connection", "transfer-encoding", "keep-alive", "upgrade",
     "proxy-authenticate", "proxy-authorization", "te", "trailers"}

\* The values a header map holds for a name, in order.
Values(headers, name) ==
    LET RECURSIVE V(_)
        V(hs) == IF hs = <<>> THEN <<>>
                 ELSE (IF Head(hs)[1] = name THEN <<Head(hs)[2]>> ELSE <<>>) \o V(Tail(hs))
    IN V(headers)

\* correlation::generate_id: a fresh UUID for each call; the n-th call of a
\* run yields Uuid[n].
Uuid == <<"uuid-1", "uuid-2", "uuid-3", "uuid-4", "uuid-5", "uuid-6">>
generate_id(n) == Uuid[n]

\* The header loop of forward_to_anthropic: the client headers copied to the
\* upstream request.
anthropic_forwarded(headers) ==
    SelectSeq(headers, LAMBDA h :
        /\ h[1] \notin HOP_BY_HOP_HEADERS
        /\ h[1] # "content-type" /\ h[1] # CORRELATION_HEADER
        /\ h[1] # "content-length")

\* The header loop of forward_to_target without the x-api-key test.
target_forwarded_keeps_api_key(headers) ==
    SelectSeq(headers, LAMBDA h :
        /\ h[1] \notin HOP_BY_HOP_HEADERS
        /\ h[1] # "content-type" /\ h[1] # CORRELATION_HEADER
        /\ h[1] # "content-length")

\* The header loop of forward_to_target: as above, and x-api-key is skipped.
target_forwarded(headers) ==
    SelectSeq(headers, LAMBDA h :
        /\ h[1] \notin HOP_BY_HOP_HEADERS
        /\ h[1] # "content-type" /\ h[1] # CORRELATION_HEADER
        /\ h[1] # "content-length"
        /\ h[1] # "x-api-key")

\* The request builder of both forwarders: content-type and the correlation
\* header first, then the copied client headers.
UpstreamRequest(dest, headers, body, correlation_id) ==
    [dest |-> dest, path |-> "/v1/messages",
     headers |-> << <<"content-type", "application/json">>,
                    <<CORRELATION_HEADER, correlation_id>> >> \o headers,
     body |-> body]

\* The request a compare task posts to the target.
CompareRequest(body, correlation_id) ==
    [dest |-> "target", path |-> "/v1/messages",
     headers |-> << <<"content-type", "application/json">>,
                    <<CORRELATION_HEADER, correlation_id>> >>,
     body |-> body]


(***************************************************************************)
(* Request bodies.  The bytes of a body are: a JSON object written as a    *)
(* sequence of fields (key, value, and how the value is written: "compact" *)
(* as serde_json writes it, or "spaced", any other spelling of the same    *)
(* value), another JSON document, or bytes that are not JSON.              *)
(***************************************************************************)
JStr(x)   == [kind |-> "string", s |-> x, n |-> 0, items |-> <<>>]
JNum(x)   == [kind |-> "number", s |-> "", n |-> x, items |-> <<>>]
JBool(x)  == [kind |-> "bool", s |-> "", n |-> IF x THEN 1 ELSE 0, items |-> <<>>]
JNull     == [kind |-> "null", s |-> "", n |-> 0, items |-> <<>>]
\* An array or object the proxy does not look into, by name.
JOther(x) == [kind |-> "other", s |-> x, n |-> 0, items |-> <<>>]
\* An array of objects with a role and a content: the messages of a request.
JMessages(msgs) == [kind |-> "messages", s |-> "", n |-> 0, items |-> msgs]

\* A content block as written: its "type" member (None when it has none),
\* whether the members its type requires are there, and, for a tool_result,
\* the types of the blocks of its content array.
RawBlock(type, complete, content) == [type |-> type, complete |-> complete, content |-> content]
\* A message as written: its role and its content, a string or blocks.
TextMessage(role) == [role |-> role, text |-> TRUE, blocks |-> <<>>]
BlocksMessage(role, blocks) == [role |-> role, text |-> FALSE, blocks |-> blocks]

Field(k, v, enc) == [k |-> k, v |-> v, enc |-> enc]
JsonObject(fields) == [kind |-> "object", raw |-> "", fields |-> fields]
\* A JSON document that is not an object: one value and how it is written.
JsonNonObject(v, enc) == [kind |-> "value", raw |-> "", fields |-> <<Field("", v, enc)>>]
NotJson(raw)       == [kind |-> "invalid", raw |-> raw, fields |-> <<>>]

\* The keys of the model in string order, the order of serde_json's Map when
\* it is a BTreeMap (the build without the preserve_order feature).
KeyOrder == <<"extra", "max_tokens", "messages", "model", "stream">>
Rank(k) == CHOOSE i \in 1..Len(KeyOrder) : KeyOrder[i] = k

Keys(fields) == {fields[i].k : i \in 1..Len(fields)}
\* The value of a key in the text of an object: the last one written wins.
Lookup(fields, k) ==
    LET idx == {i \in 1..Len(fields) : fields[i].k = k} IN
    IF idx = {} THEN None ELSE Some(fields[Max(idx)].v)

\* A map that iterates its newest key first.
Insert_newest_first(map, k, v) ==
    LET at == {i \in 1..Len(map) : map[i].k = k}
    IN  IF at # {}
        THEN [i \in 1..Len(map) |-> IF i \in at THEN [k |-> k, v |-> v] ELSE map[i]]
        ELSE <<[k |-> k, v |-> v]>> \o map

\* A serde_json Map is the sequence of its entries [k, v] in iteration
\* order.  Map::insert(k, v): an existing key keeps its place and takes the
\* new value; a new key goes to its sorted place (BTreeMap), or to the end
\* when the build has preserve_order (IndexMap).
Insert(map, k, v) ==
    LET insert(m) ==
            LET at == {i \in 1..Len(m) : m[i].k = k}
                before == {i \in 1..Len(m) : Rank(m[i].k) < Rank(k)}
                n == Cardinality(before)
            IN  IF at # {}
                THEN [i \in 1..Len(m) |-> IF i \in at THEN [k |-> k, v |-> v] ELSE m[i]]
                ELSE IF config.preserve_order
                THEN Append(m, [k |-> k, v |-> v])
                ELSE SubSeq(m, 1, n) \o <<[k |-> k, v |-> v]>> \o SubSeq(m, n + 1, Len(m))
    IN CHOOSE out \in {insert(m) : m \in {map}} : TRUE     \* the map is evaluated once

\* serde_json::from_slice::<Value> of an object: its members inserted in the
\* order they are written.
RECURSIVE ParseInto(_, _)
ParseInto(map, fields) ==
    IF fields = <<>> THEN map
    ELSE ParseInto(Insert(map, Head(fields).k, Head(fields).v), Tail(fields))
ParseMap(fields) == ParseInto(<<>>, fields)

\* serde_json::to_vec of a map: the entries in map order, every value in
\* serde_json's compact form.
to_vec(map) ==
    JsonObject([i \in 1..Len(map) |-> Field(map[i].k, map[i].v, "compact")])

\* The value a map holds for a key.
MapGet(map, k) == {map[i].v : i \in {j \in 1..Len(map) : map[j].k = k}}

DefaultMaxTokens == 65536

\* The rewrite setting max_tokens to the default whatever was sent.
rewrite_always_defaults(body, new_model) ==
    IF body.kind = "invalid" THEN [ok |-> FALSE, bytes |-> body]
    ELSE IF body.kind = "value"
    THEN [ok |-> TRUE, bytes |-> JsonNonObject(body.fields[1].v, "compact")]
    ELSE LET m0 == ParseMap(body.fields)
             m1 == IF new_model # {}
                   THEN Insert(m0, "model", JStr(CHOOSE x \in new_model : TRUE))
                   ELSE m0
         IN [ok |-> TRUE,
             bytes |-> to_vec(Insert(m1, "max_tokens", JNum(DefaultMaxTokens)))]

\* rewrite_request_body answering bytes that are not JSON with an object of
\* its own instead of the error.
rewrite_repairs_invalid(body, new_model) ==
    IF body.kind = "invalid"
    THEN [ok |-> TRUE, bytes |-> to_vec(Insert(<<>>, "max_tokens", JNum(DefaultMaxTokens)))]
    ELSE [ok |-> TRUE, bytes |-> body]

\* rewrite_request_body(body, new_model): Ok(bytes) or Err.
rewrite_request_body(body, new_model) ==
    IF body.kind = "invalid" THEN [ok |-> FALSE, bytes |-> body]
    ELSE IF body.kind = "value"
    THEN [ok |-> TRUE, bytes |-> JsonNonObject(body.fields[1].v, "compact")]
    ELSE LET m0 == ParseMap(body.fields)
             m1 == IF new_model # {}
                   THEN Insert(m0, "model", JStr(CHOOSE x \in new_model : TRUE))
                   ELSE m0
             m2 == IF MapGet(m1, "max_tokens") = {}
                      \/ \E v \in MapGet(m1, "max_tokens") : v.kind = "null"
                   THEN Insert(m1, "max_tokens", JNum(DefaultMaxTokens))
                   ELSE m1
         IN [ok |-> TRUE, bytes |-> to_vec(m2)]

\* parsed.get(k) of the permissive parse of the handler.
Get(body, k) == IF body.kind = "object" THEN Lookup(body.fields, k) ELSE None
as_str(o)  == {v.s : v \in {x \in o : x.kind = "string"}}
as_bool(o) == {v.n = 1 : v \in {x \in o : x.kind = "bool"}}

(***************************************************************************)
(* The typed validation of a request.                                      *)
(***************************************************************************)
RECURSIVE Flatten(_)
Flatten(ss) == IF ss = <<>> THEN <<>> ELSE Head(ss) \o Flatten(Tail(ss))

KnownBlockTypes == {"text", "image", "tool_use", "tool_result"}

\* The typed parse of one content block: the variant of AnthropicContentBlock,
\* or "Err".  A known tag needs the members of its variant; any other tag is
\* the catch-all, whatever else the block holds; a block needs a tag.
AnthropicContentBlock(b) ==
    IF b.type = {} THEN "Err"
    ELSE LET t == CHOOSE x \in b.type : TRUE IN
         IF t \notin KnownBlockTypes THEN "Other"
         ELSE IF ~b.complete THEN "Err"
         ELSE IF t = "text" THEN "Text"
         ELSE IF t = "image" THEN "Image"
         ELSE IF t = "tool_use" THEN "ToolUse"
         ELSE "ToolResult"

\* The typed parse of a role: the variant of AnthropicRole, or "Err".
Role(role) ==
    IF role = "user" THEN "User" ELSE IF role = "assistant" THEN "Assistant" ELSE "Err"

\* format!("{:?}", msg.role).to_lowercase()
RoleName(variant) == IF variant = "User" THEN "user" ELSE "assistant"

\* The typed parse with max_tokens optional: a request without it is accepted
\* and its messages are not looked at.
TypedRequest_max_tokens_optional(request_bytes) ==
    IF request_bytes.kind # "object" THEN [ok |-> FALSE, messages |-> <<>>]
    ELSE [ok |-> Lookup(request_bytes.fields, "model") # None
                 /\ Lookup(request_bytes.fields, "messages") # None,
          messages |-> <<>>]

\* serde_json::from_slice::<AnthropicCreateMessageRequest>: model, max_tokens
\* and messages are required, each known member is written at most once,
\* stream is a boolean when it is there, members it does not know are skipped.
TypedRequest(request_bytes) ==
    LET fs == request_bytes.fields
        times(k) == Cardinality({i \in 1..Len(fs) : fs[i].k = k})
        val(k) == CHOOSE v \in Lookup(fs, k) : TRUE
        Err == [ok |-> FALSE, messages |-> <<>>]
    IN IF request_bytes.kind # "object" THEN Err
       ELSE IF times("model") # 1 \/ times("max_tokens") # 1 \/ times("messages") # 1
               \/ times("stream") > 1
       THEN Err
       ELSE IF val("model").kind # "string" \/ val("max_tokens").kind # "number"
               \/ val("max_tokens").n < 0 \/ val("messages").kind # "messages"
               \/ (times("stream") = 1 /\ val("stream").kind # "bool")
       THEN Err
       ELSE LET msgs == val("messages").items
                typed == [i \in 1..Len(msgs) |->
                            [role |-> Role(msgs[i].role),
                             blocks |-> [j \in 1..Len(msgs[i].blocks) |->
                                            AnthropicContentBlock(msgs[i].blocks[j])]]]
            IN IF \E i \in 1..Len(typed) :
                      \/ typed[i].role = "Err"
                      \/ \E j \in 1..Len(typed[i].blocks) : typed[i].blocks[j] = "Err"
               THEN Err
               ELSE [ok |-> TRUE, messages |-> typed]

Finding(severity, category, block_type, message_index, role) ==
    [severity |-> severity, category |-> category, block_type |-> block_type,
     message_index |-> message_index, role |-> role]

\* The type name of a block recovered from the untyped value:
\* messages[msg_idx].content[block_idx].type as a string, or "unknown".
type_name(raw_value, msg_idx, block_idx) ==
    LET msgs == {v.items : v \in Get(raw_value, "messages")}
        m == {ms[msg_idx + 1] : ms \in {x \in msgs : msg_idx + 1 \in DOMAIN x}}
        b == {x.blocks[block_idx + 1] : x \in {y \in m : block_idx + 1 \in DOMAIN y.blocks}}
        t == UNION {x.type : x \in b}
    IN IF t # {} THEN CHOOSE x \in t : TRUE ELSE "unknown"

\* if !unknown_types.contains(&type_name) { unknown_types.push(type_name) },
\* over the type names in the order they are found.
RECURSIVE push_unknown(_, _)
push_unknown(unknown_types, names) ==
    IF names = <<>> THEN unknown_types
    ELSE push_unknown(IF \E i \in 1..Len(unknown_types) : unknown_types[i] = Head(names)
                      THEN unknown_types
                      ELSE Append(unknown_types, Head(names)),
                      Tail(names))

\* validate_request(request_bytes, raw_value): the report.
validate_request(request_bytes, raw_value) ==
    LET typed == TypedRequest(request_bytes) IN
    IF ~typed.ok
    THEN [typed_parse_succeeded |-> FALSE,
          findings |-> <<Finding("high", "typed_parse_failure", None, None, None)>>,
          unknown_block_types |-> <<>>]
    ELSE LET at == Flatten([i \in 1..Len(typed.messages) |->
                        [j \in 1..Len(typed.messages[i].blocks) |-> <<i - 1, j - 1>>]])
             others == SelectSeq(at, LAMBDA p :
                            typed.messages[p[1] + 1].blocks[p[2] + 1] = "Other")
             findings == [k \in 1..Len(others) |->
                            Finding("medium", "unknown_content_block",
                                    Some(type_name(raw_value, others[k][1], others[k][2])),
                                    Some(others[k][1]),
                                    Some(RoleName(typed.messages[others[k][1] + 1].role)))]
         IN [typed_parse_succeeded |-> TRUE,
             findings |-> findings,
             unknown_block_types |->
                push_unknown(<<>>, [k \in 1..Len(findings) |->
                                        CHOOSE x \in findings[k].block_type : TRUE])]


(***************************************************************************)
(* Responses.                                                              *)
(***************************************************************************)
Response(status, headers, kind, text) ==
    [status |-> status, headers |-> headers, body |-> [kind |-> kind, text |-> text]]

\* (StatusCode, &str).into_response()
TextResponse(status, text) ==
    Response(status, << <<"content-type", "text/plain; charset=utf-8">> >>, "text", text)
\* (StatusCode, axum::Json(..)).into_response()
JsonResponse(status, text) ==
    Response(status, << <<"content-type", "application/json">> >>, "json", text)

\* StatusCode::from_u16(status).unwrap_or(StatusCode::BAD_GATEWAY)
StatusOrBadGateway(status) == IF status >= 100 /\ status <= 999 THEN status ELSE 502

\* What the upstream stream yields to one poll: a chunk, an error, or the end.
ItemChunk(bytes) == [k |-> "chunk", bytes |-> bytes]
ItemErr          == [k |-> "err", bytes |-> <<>>]
ItemEnd          == [k |-> "end", bytes |-> <<>>]

\* The result of req_builder.send().await.
SendTimeout == [kind |-> "timeout", status |-> 0, headers |-> <<>>]
SendError   == [kind |-> "error", status |-> 0, headers |-> <<>>]
SendOk(status, headers) == [kind |-> "ok", status |-> status, headers |-> headers]

\* The root span proxy_request: its recordable fields and the OpenInference
\* response attributes; ttft and total count the times the field was recorded.
NewSpan == [ttft |-> 0, total |-> 0, anthropic_request_id |-> None, attrs |-> NoAttrs]

\* A request context before the request arrives.
NewReq ==
    [pc |-> "new",                 \* new, sent, streaming, done, failed
     headers |-> <<>>,             \* the client's request headers
     client_body |-> NotJson(""),  \* the client's request body
     body |-> NotJson(""),         \* the body after the rewrite
     correlation_id |-> "",
     model |-> "", is_streaming |-> FALSE,
     mode |-> None,                \* the mode read for the request
     upstream |-> <<>>,            \* the primary upstream requests sent
     result |-> None,              \* the result of the send, once it completed
     resp |-> <<>>,                \* the response returned to the client
     fwd_status |-> None,          \* primary_forward span: status
     span |-> NewSpan,
     inner |-> <<>>,               \* what the upstream body stream yielded
     out |-> <<>>,                 \* what TeeBody yielded to the client
     buffer |-> <<>>,              \* TeeBody.buffer
     first_chunk_seen |-> FALSE,
     extracted |-> 0,              \* runs of the end-of-stream extraction
     request_attrs |-> FALSE,      \* set_request_attributes ran on the root span
     report |-> None,              \* the validation report emitted on the root span
     fallback |-> None,            \* the request, when the catch-all handled it
     raw |-> <<>>]                 \* the requests forward_raw sent

\* A compare task before it is spawned.
NoTask ==
    [pc |-> "none",                \* none, spawned, sending, reading, dropped, done
     spawns |-> 0,                 \* tasks spawned by dispatch for the request
     correlation_id |-> "", body |-> NotJson(""),
     sent |-> <<>>,                \* the requests posted to the target
     status |-> None,              \* compare_request span: status
     log |-> "",                   \* the last message logged
     usage |-> None]               \* the token counts logged with it

\* build_response answering 502 for every upstream status of 500 and above.
build_response_masks_errors(req, result) ==
    IF result.kind # "ok"
    THEN [req EXCEPT
            !.result = Some(result),
            !.fwd_status = Some(502),
            !.resp = <<IF result.kind = "timeout"
                       THEN TextResponse(504, "upstream timeout")
                       ELSE TextResponse(502, "upstream connection error")>>,
            !.pc = "done"]
    ELSE [req EXCEPT
            !.result = Some(result),
            !.fwd_status = Some(result.status),
            !.resp = <<Response(IF result.status >= 500 THEN 502 ELSE result.status,
                                << <<CORRELATION_HEADER, req.correlation_id>> >>,
                                "stream", "")>>,
            !.pc = "streaming"]

\* build_response sending the request once more after a failed send.
build_response_retries(req, result) ==
    IF result.kind # "ok" /\ Len(req.upstream) < 2
    THEN [req EXCEPT !.upstream = Append(@, req.upstream[1])]
    ELSE IF result.kind # "ok"
    THEN [req EXCEPT
            !.result = Some(result),
            !.fwd_status = Some(502),
            !.resp = <<IF result.kind = "timeout"
                       THEN TextResponse(504, "upstream timeout")
                       ELSE TextResponse(502, "upstream connection error")>>,
            !.pc = "done"]
    ELSE [req EXCEPT
            !.result = Some(result),
            !.fwd_status = Some(result.status),
            !.resp = <<Response(result.status,
                                << <<CORRELATION_HEADER, req.correlation_id>> >>,
                                "stream", "")>>,
            !.pc = "streaming"]

\* The response of build_response for the result of the send.
build_response(req, result) ==
    IF result.kind # "ok"
    THEN [req EXCEPT
            !.result = Some(result),
            !.fwd_status = Some(502),
            !.resp = <<IF result.kind = "timeout"
                       THEN TextResponse(504, "upstream timeout")
                       ELSE TextResponse(502, "upstream connection error")>>,
            !.pc = "done"]
    ELSE LET kept == SelectSeq(result.headers, LAMBDA h : h[1] \notin HOP_BY_HOP_HEADERS)
             ids  == Values(result.headers, "x-request-id")
         IN [req EXCEPT
            !.result = Some(result),
            !.fwd_status = Some(result.status),
            !.resp = <<Response(StatusOrBadGateway(result.status),
                                kept \o << <<CORRELATION_HEADER, req.correlation_id>> >>,
                                "stream", "")>>,
            !.span.anthropic_request_id = IF ids # <<>> THEN Some(ids[1]) ELSE @,
            !.pc = "streaming"]

\* forward_to_anthropic up to the send: the request sent to the passthrough.
forward_to_anthropic(req) ==
    [req EXCEPT
        !.upstream = Append(@, UpstreamRequest("passthrough",
                        anthropic_forwarded(req.headers), req.body, req.correlation_id)),
        !.pc = "sent"]

\* forward_to_target up to the send: the request sent to the target.
forward_to_target(req) ==
    [req EXCEPT
        !.upstream = Append(@, UpstreamRequest("target",
                        target_forwarded(req.headers), req.body, req.correlation_id)),
        !.pc = "sent"]

\* The 403 of handle_messages when anthropic-only mode is not allowed.
Forbidden(req) ==
    [req EXCEPT
        !.resp = <<JsonResponse(403,
            "anthropic-only mode is not enabled; restart with --allow-anthropic-only")>>,
        !.pc = "done"]

\* dispatch acquiring the permit itself, before it spawns the task.
dispatch_waits_for_permit(r, request_bytes, correlation_id) ==
    /\ permits > 0
    /\ tasks' = [tasks EXCEPT ![r] =
                [NoTask EXCEPT !.pc = "spawned", !.spawns = tasks[r].spawns + 1,
                               !.body = request_bytes,
                               !.correlation_id = correlation_id]]

\* CompareDispatcher::dispatch: spawns the task and returns.
dispatch(r, request_bytes, correlation_id) ==
    tasks' = [tasks EXCEPT ![r] =
                [NoTask EXCEPT !.pc = "spawned", !.spawns = tasks[r].spawns + 1,
                               !.body = request_bytes,
                               !.correlation_id = correlation_id]]

\* The branch without the return of the target arm: the request falls
\* through to the passthrough forward.
route_target_falls_through(req, current_mode) ==
    IF current_mode = AnthropicOnly /\ ~config.anthropic_only_allowed
    THEN Forbidden(req)
    ELSE forward_to_anthropic(
            IF current_mode = TargetOnly THEN forward_to_target(req) ELSE req)

\* The branch without the anthropic_only_allowed check.
route_without_gate(req, current_mode) ==
    IF current_mode = TargetOnly THEN forward_to_target(req)
    ELSE forward_to_anthropic(req)

\* The branch answering 400 when the validation found a typed-parse failure.
route_rejects_failed_parse(req, current_mode) ==
    IF \E report \in req.report : ~report.typed_parse_succeeded
    THEN [req EXCEPT !.resp = <<JsonResponse(400, "invalid request")>>, !.pc = "done"]
    ELSE IF current_mode = TargetOnly THEN forward_to_target(req)
    ELSE IF current_mode = AnthropicOnly /\ ~config.anthropic_only_allowed
    THEN Forbidden(req)
    ELSE forward_to_anthropic(req)

\* The branch of handle_messages on the mode read.
route(req, current_mode) ==
    IF current_mode = TargetOnly THEN forward_to_target(req)
    ELSE IF current_mode = AnthropicOnly /\ ~config.anthropic_only_allowed
    THEN Forbidden(req)
    ELSE forward_to_anthropic(req)

\* handle_messages, from the arrival of the request to the await of the send
\* (or to the 403).
HandleMessages(r, headers, body) ==
    /\ reqs[r].pc = "new"
    /\ \E rw \in {rewrite_request_body(body, config.model_override)} :
       \E rewritten \in {IF rw.ok THEN rw.bytes ELSE body} :
       \E parsed \in {IF rewritten.kind = "invalid" THEN None ELSE Some(rewritten)} :
       \E model \in {as_str(Get(rewritten, "model"))} :
       \E streaming \in {as_bool(Get(rewritten, "stream"))} :
       \E report \in {{validate_request(rewritten, value) : value \in parsed}} :
       \E current_mode \in {get(mode)} :
       \E req \in {[reqs[r] EXCEPT
                     !.headers = headers, !.client_body = body, !.body = rewritten,
                     !.correlation_id = generate_id(r),
                     !.model = IF model # {} THEN CHOOSE x \in model : TRUE ELSE "unknown",
                     !.is_streaming = IF streaming # {} THEN CHOOSE x \in streaming : TRUE
                                      ELSE FALSE,
                     !.request_attrs = (parsed # None),
                     !.report = report,
                     !.mode = Some(current_mode)]} :
          /\ stats' = inc_requests(stats)
          /\ IF current_mode = Compare
             THEN dispatch(r, rewritten, req.correlation_id)
             ELSE UNCHANGED tasks
          /\ reqs' = [reqs EXCEPT ![r] = route(req, current_mode)]
    /\ UNCHANGED <<mode, config, permits, sse, admin, tracing_enabled, snap>>

\* The send of the primary forward completes and build_response runs.
ForwardResult(r, result) ==
    /\ reqs[r].pc = "sent"
    /\ reqs' = [reqs EXCEPT ![r] = build_response(@, result)]
    /\ UNCHANGED <<mode, config, permits, stats, tasks, sse, admin, tracing_enabled, snap>>


\* poll_next copying only the first chunk into the buffer.
poll_next_buffers_first_chunk(req, item) ==
    IF item.k = "chunk"
    THEN [req EXCEPT
            !.inner = Append(@, item),
            !.span.ttft = IF req.first_chunk_seen THEN @ ELSE @ + 1,
            !.first_chunk_seen = TRUE,
            !.buffer = IF req.first_chunk_seen THEN @ ELSE @ \o item.bytes,
            !.out = Append(@, ItemChunk(item.bytes))]
    ELSE IF item.k = "err"
    THEN [req EXCEPT !.inner = Append(@, item), !.out = Append(@, ItemErr), !.pc = "failed"]
    ELSE [req EXCEPT
            !.inner = Append(@, item),
            !.span.total = @ + 1,
            !.span.attrs = set_response_attributes(@, req.buffer, req.is_streaming),
            !.extracted = @ + 1,
            !.out = Append(@, ItemEnd),
            !.pc = "done"]

\* poll_next recording ttft_ms at every chunk.
poll_next_ttft_every_chunk(req, item) ==
    IF item.k = "chunk"
    THEN [req EXCEPT
            !.inner = Append(@, item),
            !.span.ttft = @ + 1,
            !.first_chunk_seen = TRUE,
            !.buffer = @ \o item.bytes,
            !.out = Append(@, ItemChunk(item.bytes))]
    ELSE IF item.k = "err"
    THEN [req EXCEPT !.inner = Append(@, item), !.out = Append(@, ItemErr), !.pc = "failed"]
    ELSE [req EXCEPT
            !.inner = Append(@, item),
            !.span.total = @ + 1,
            !.span.attrs = set_response_attributes(@, req.buffer, req.is_streaming),
            !.extracted = @ + 1,
            !.out = Append(@, ItemEnd),
            !.pc = "done"]

\* poll_next yielding the accumulated buffer instead of the chunk received.
poll_next_yields_buffer(req, item) ==
    IF item.k = "chunk"
    THEN [req EXCEPT
            !.inner = Append(@, item),
            !.span.ttft = IF req.first_chunk_seen THEN @ ELSE @ + 1,
            !.first_chunk_seen = TRUE,
            !.buffer = @ \o item.bytes,
            !.out = Append(@, ItemChunk(req.buffer \o item.bytes))]
    ELSE IF item.k = "err"
    THEN [req EXCEPT !.inner = Append(@, item), !.out = Append(@, ItemErr), !.pc = "failed"]
    ELSE [req EXCEPT
            !.inner = Append(@, item),
            !.span.total = @ + 1,
            !.span.attrs = set_response_attributes(@, req.buffer, req.is_streaming),
            !.extracted = @ + 1,
            !.out = Append(@, ItemEnd),
            !.pc = "done"]

\* TeeBody::poll_next for what the inner stream yields: the request context
\* after the poll (the item yielded to the client is appended to out).
poll_next(req, item) ==
    IF item.k = "chunk"
    THEN [req EXCEPT
            !.inner = Append(@, item),
            !.span.ttft = IF req.first_chunk_seen THEN @ ELSE @ + 1,
            !.first_chunk_seen = TRUE,
            !.buffer = @ \o item.bytes,
            !.out = Append(@, ItemChunk(item.bytes))]
    ELSE IF item.k = "err"
    THEN [req EXCEPT !.inner = Append(@, item), !.out = Append(@, ItemErr), !.pc = "failed"]
    ELSE [req EXCEPT
            !.inner = Append(@, item),
            !.span.total = @ + 1,
            !.span.attrs = set_response_attributes(@, req.buffer, req.is_streaming),
            !.extracted = @ + 1,
            !.out = Append(@, ItemEnd),
            !.pc = "done"]

\* The extraction run also when the upstream stream yields an error.
poll_stats_on_error(req, item) ==
    IF item.k \in {"end", "err"}
    THEN extract_and_record_stats(req.buffer, req.is_streaming) ELSE <<>>

\* The stats calls of a poll: extraction runs at the end of the stream.
poll_stats(req, item) ==
    IF item.k = "end" THEN extract_and_record_stats(req.buffer, req.is_streaming) ELSE <<>>

\* The client goes away before the response ended: the connection drops the
\* handler's future (while it awaits the send) or the response body (between
\* two polls).  TeeBody has no destructor: its buffer and span clone are
\* dropped and nothing else runs.
ClientDisconnect(r) ==
    /\ reqs[r].pc \in {"sent", "streaming"}
    /\ reqs' = [reqs EXCEPT ![r].pc = "cancelled"]
    /\ UNCHANGED <<mode, config, permits, stats, tasks, sse, admin, tracing_enabled, snap>>

\* One poll of the response body by the connection writing it to the client.
PollNext(r, item) ==
    /\ reqs[r].pc = "streaming"
    /\ reqs' = [reqs EXCEPT ![r] = poll_next(@, item)]
    /\ stats' = ApplyCalls(stats, poll_stats(reqs[r], item))
    /\ UNCHANGED <<mode, config, permits, tasks, sse, admin, tracing_enabled, snap>>

(***************************************************************************)
(* The catch-all (server.rs handle_fallback, primary.rs forward_raw).      *)
(***************************************************************************)
\* A request to a path without a route: method, path, query (None or the
\* text after the '?'), headers, body, and whether the body can be read
\* into memory within the cap of 10 MiB.
FallbackRequest(method, path, query, headers, body, readable) ==
    [method |-> method, path |-> path, query |-> query, headers |-> headers,
     body |-> body, readable |-> readable]

\* The header loop of forward_raw.
raw_forwarded(headers) ==
    SelectSeq(headers, LAMBDA h :
        h[1] \notin HOP_BY_HOP_HEADERS /\ h[1] # CORRELATION_HEADER)

\* The request forward_raw builds: url is the passthrough base followed by
\* path and query.
RawRequest(method, path, query, headers, body, correlation_id) ==
    [dest |-> "passthrough", method |-> method, path |-> path, query |-> query,
     headers |-> << <<CORRELATION_HEADER, correlation_id>> >> \o raw_forwarded(headers),
     body |-> body]

\* handle_fallback forwarding in every mode.
handle_fallback_in_every_mode(req, current_mode, request, correlation_id) ==
    IF ~request.readable
    THEN [req EXCEPT !.fallback = Some(request), !.mode = Some(current_mode),
                     !.correlation_id = correlation_id,
                     !.resp = <<TextResponse(400, "failed to read request body")>>,
                     !.pc = "done"]
    ELSE [req EXCEPT !.fallback = Some(request), !.mode = Some(current_mode),
                     !.correlation_id = correlation_id,
                     !.raw = Append(@, RawRequest(request.method, request.path,
                                    IF request.query = None THEN ""
                                    ELSE "?" \o (CHOOSE q \in request.query : TRUE),
                                    request.headers, request.body, correlation_id)),
                     !.pc = "sent_raw"]

\* handle_fallback answering 403 as handle_messages does when anthropic-only
\* mode is not allowed.
handle_fallback_gated(req, current_mode, request, correlation_id) ==
    IF current_mode = TargetOnly
    THEN [req EXCEPT !.fallback = Some(request), !.mode = Some(current_mode),
                     !.resp = <<TextResponse(404, "not found")>>,
                     !.pc = "done"]
    ELSE IF current_mode = AnthropicOnly /\ ~config.anthropic_only_allowed
    THEN [Forbidden(req) EXCEPT !.fallback = Some(request), !.mode = Some(current_mode)]
    ELSE IF ~request.readable
    THEN [req EXCEPT !.fallback = Some(request), !.mode = Some(current_mode),
                     !.correlation_id = correlation_id,
                     !.resp = <<TextResponse(400, "failed to read request body")>>,
                     !.pc = "done"]
    ELSE [req EXCEPT !.fallback = Some(request), !.mode = Some(current_mode),
                     !.correlation_id = correlation_id,
                     !.raw = Append(@, RawRequest(request.method, request.path,
                                    IF request.query = None THEN ""
                                    ELSE "?" \o (CHOOSE q \in request.query : TRUE),
                                    request.headers, request.body, correlation_id)),
                     !.pc = "sent_raw"]

\* handle_fallback up to the await of the send: the 404 of target mode, the
\* 400 of a body that cannot be read, or the request sent by forward_raw.
handle_fallback(req, current_mode, request, correlation_id) ==
    IF current_mode = TargetOnly
    THEN [req EXCEPT !.fallback = Some(request), !.mode = Some(current_mode),
                     !.resp = <<TextResponse(404, "not found")>>,
                     !.pc = "done"]
    ELSE IF ~request.readable
    THEN [req EXCEPT !.fallback = Some(request), !.mode = Some(current_mode),
                     !.correlation_id = correlation_id,
                     !.resp = <<TextResponse(400, "failed to read request body")>>,
                     !.pc = "done"]
    ELSE [req EXCEPT !.fallback = Some(request), !.mode = Some(current_mode),
                     !.correlation_id = correlation_id,
                     !.raw = Append(@, RawRequest(request.method, request.path,
                                    IF request.query = None THEN ""
                                    ELSE "?" \o (CHOOSE q \in request.query : TRUE),
                                    request.headers, request.body, correlation_id)),
                     !.pc = "sent_raw"]

\* The catch-all counting the request as handle_messages does.
HandleFallback_counts(r, request) ==
    /\ reqs[r].pc = "new"
    /\ reqs' = [reqs EXCEPT ![r] = handle_fallback(@, get(mode), request, generate_id(r))]
    /\ stats' = inc_requests(stats)
    /\ UNCHANGED <<mode, config, permits, tasks, sse, admin, tracing_enabled, snap>>

HandleFallback(r, request) ==
    /\ reqs[r].pc = "new"
    /\ reqs' = [reqs EXCEPT ![r] = handle_fallback(@, get(mode), request, generate_id(r))]
    /\ UNCHANGED <<mode, config, permits, stats, tasks, sse, admin, tracing_enabled, snap>>

\* build_response_simple: as build_response, without the tap.
build_response_simple(req, result) ==
    IF result.kind # "ok"
    THEN [req EXCEPT
            !.result = Some(result),
            !.fwd_status = Some(502),
            !.resp = <<IF result.kind = "timeout"
                       THEN TextResponse(504, "upstream timeout")
                       ELSE TextResponse(502, "upstream connection error")>>,
            !.pc = "done"]
    ELSE LET kept == SelectSeq(result.headers, LAMBDA h : h[1] \notin HOP_BY_HOP_HEADERS)
         IN [req EXCEPT
            !.result = Some(result),
            !.fwd_status = Some(result.status),
            !.resp = <<Response(StatusOrBadGateway(result.status),
                                kept \o << <<CORRELATION_HEADER, req.correlation_id>> >>,
                                "stream", "")>>,
            !.pc = "raw_streaming"]

\* The send of forward_raw completes.
ForwardRawResult(r, result) ==
    /\ reqs[r].pc = "sent_raw"
    /\ reqs' = [reqs EXCEPT ![r] = build_response_simple(@, result)]
    /\ UNCHANGED <<mode, config, permits, stats, tasks, sse, admin, tracing_enabled, snap>>

\* One poll of a body streamed verbatim: the item goes to the client.
PollRaw(r, item) ==
    /\ reqs[r].pc = "raw_streaming"
    /\ reqs' = [reqs EXCEPT ![r].inner = Append(@, item),
                            ![r].out = Append(@, item),
                            ![r].pc = IF item.k = "chunk" THEN "raw_streaming"
                                      ELSE IF item.k = "err" THEN "failed" ELSE "done"]
    /\ UNCHANGED <<mode, config, permits, stats, tasks, sse, admin, tracing_enabled, snap>>

(***************************************************************************)
(* The compare task spawned by dispatch (compare.rs).                      *)
(***************************************************************************)
\* An acquire that never fails.
try_acquire_owned_always(available) == TRUE

\* try_acquire_owned refusing the last permit.
try_acquire_owned_keeps_one(available) == available > 1

\* semaphore.try_acquire_owned(): Ok exactly when a permit is available.
try_acquire_owned(available) == available > 0

\* The task's first step: the non-blocking acquire, then either the drop or
\* the POST to the target.
CompareAcquire(r) ==
    /\ tasks[r].pc = "spawned"
    /\ IF try_acquire_owned(permits)
       THEN /\ permits' = permits - 1
            /\ tasks' = [tasks EXCEPT ![r].pc = "sending",
                            ![r].sent = Append(@, CompareRequest(tasks[r].body,
                                                      tasks[r].correlation_id))]
       ELSE /\ permits' = permits
            /\ tasks' = [tasks EXCEPT ![r].pc = "dropped",
                            ![r].log = "Compare semaphore full, dropping request"]
    /\ UNCHANGED <<mode, config, stats, reqs, sse, admin, tracing_enabled, snap>>

\* The task after the timeout-wrapped send: result is a status (the target
\* answered), "failed" or "timeout".
compare_result(task, result) ==
    IF result.kind = "ok"
    THEN [task EXCEPT !.status = Some(result.status), !.pc = "reading"]
    ELSE [task EXCEPT !.status = Some(0), !.pc = "done",
                      !.log = IF result.kind = "timeout" THEN "Compare request timed out"
                              ELSE "Compare request failed"]

\* A compare failure surfacing on the client path: the request's response
\* is replaced by a 502.
CompareResultPropagates(r, result) ==
    /\ tasks[r].pc = "sending"
    /\ tasks' = [tasks EXCEPT ![r] = compare_result(@, result)]
    /\ permits' = IF result.kind = "ok" THEN permits ELSE permits + 1
    /\ reqs' = IF result.kind = "ok" THEN reqs
               ELSE [reqs EXCEPT ![r].resp = <<TextResponse(502, "compare failed")>>]
    /\ UNCHANGED <<mode, config, stats, sse, admin, tracing_enabled, snap>>

\* The task keeping its permit when the send timed out.
CompareResult_timeout_keeps_permit(r, result) ==
    /\ tasks[r].pc = "sending"
    /\ tasks' = [tasks EXCEPT ![r] = compare_result(@, result)]
    /\ permits' = IF result.kind \in {"ok", "timeout"} THEN permits ELSE permits + 1
    /\ UNCHANGED <<mode, config, stats, reqs, sse, admin, tracing_enabled, snap>>

\* The task once the send completed: with the target's answer, with an
\* error, or with the timeout elapsed (tokio::time::timeout around the
\* send, which ends a send to a target that stalls).
CompareResult(r, result) ==
    /\ tasks[r].pc = "sending"
    /\ tasks' = [tasks EXCEPT ![r] = compare_result(@, result)]
    /\ permits' = IF result.kind = "ok" THEN permits ELSE permits + 1   \* _permit dropped
    /\ UNCHANGED <<mode, config, stats, reqs, sse, admin, tracing_enabled, snap>>

\* What resp.bytes().await yields: None when the read failed, or the body,
\* described by what the task reads of it: whether it is JSON, and its
\* "usage" member (None when it has none) with the two token counts (None
\* for a count that is missing or not a number).
ReadFailed == None
CompareDoc(json, usage) == Some([json |-> json, usage |-> usage])
Usage(input_tokens, output_tokens) ==
    Some([input_tokens |-> input_tokens, output_tokens |-> output_tokens])

\* The compare task adding the token counts it read to the process stats.
CompareBody_counts_tokens(r, read) ==
    /\ tasks[r].pc = "reading"
    /\ tasks' = [tasks EXCEPT ![r].pc = "done",
                    ![r].log = IF read # None THEN "Compare request complete"
                               ELSE "Failed to read compare response body"]
    /\ permits' = permits + 1
    /\ stats' = IF \E doc \in read : doc.json /\ doc.usage # None
                THEN add_input_tokens(stats, 1)
                ELSE stats
    /\ UNCHANGED <<mode, config, reqs, sse, admin, tracing_enabled, snap>>

\* resp.bytes().await completes: the body was read or the read failed; the
\* task logs (with the token counts when the body is JSON with a usage
\* member) and ends, dropping its permit.
CompareBody(r, read) ==
    /\ tasks[r].pc = "reading"
    /\ tasks' = [tasks EXCEPT ![r].pc = "done",
                    ![r].log = IF read # None THEN "Compare request complete"
                               ELSE "Failed to read compare response body",
                    ![r].usage = UNION {
                        {[input_tokens |-> AsU64(u.input_tokens),
                          output_tokens |-> AsU64(u.output_tokens)] : u \in doc.usage}
                        : doc \in {d \in read : d.json}}]
    /\ permits' = permits + 1
    /\ UNCHANGED <<mode, config, stats, reqs, sse, admin, tracing_enabled, snap>>

(***************************************************************************)
(* PUT /api/mode (handle_set_mode).                                        *)
(***************************************************************************)
\* The response (status and JSON body: the error text, or the mode set) and
\* the mode cell after the request; payload is the "mode" string of the
\* JSON, None when it is missing or not a string.
AdminResponse(status, body) == [status |-> status, body |-> body]

\* handle_set_mode without the check of anthropic_only_allowed.
handle_set_mode_ungated(cell, payload) ==
    IF payload = {}
    THEN [resp |-> AdminResponse(400, "missing 'mode' field"), cell |-> cell]
    ELSE LET mode_str == CHOOSE x \in payload : TRUE IN
         IF mode_str \notin ProxyModes
         THEN [resp |-> AdminResponse(400,
                    "invalid mode, expected: target, compare, or anthropic-only"),
               cell |-> cell]
         ELSE [resp |-> AdminResponse(200, mode_str), cell |-> as_u8(mode_str)]

handle_set_mode(cell, payload) ==
    IF payload = {}
    THEN [resp |-> AdminResponse(400, "missing 'mode' field"), cell |-> cell]
    ELSE LET mode_str == CHOOSE x \in payload : TRUE IN
         IF mode_str \notin ProxyModes
         THEN [resp |-> AdminResponse(400,
                    "invalid mode, expected: target, compare, or anthropic-only"),
               cell |-> cell]
         ELSE IF mode_str = AnthropicOnly /\ ~config.anthropic_only_allowed
         THEN [resp |-> AdminResponse(403,
                    "anthropic-only mode is disabled; restart with --allow-anthropic-only"),
               cell |-> cell]
         ELSE [resp |-> AdminResponse(200, mode_str), cell |-> as_u8(mode_str)]

HandleSetMode(payload) ==
    /\ mode' = handle_set_mode(mode, payload).cell
    /\ admin' = Some(handle_set_mode(mode, payload).resp)
    /\ UNCHANGED <<config, permits, stats, reqs, tasks, sse, tracing_enabled, snap>>

\* handle_get_mode: the JSON {"mode": <the mode read>}.
handle_get_mode(cell) == AdminResponse(200, get(cell))

HandleGetMode ==
    /\ admin' = Some(handle_get_mode(mode))
    /\ UNCHANGED <<mode, config, permits, stats, reqs, tasks, sse, tracing_enabled, snap>>

\* A boolean as serde_json writes it.
BoolText(b) == IF b THEN "true" ELSE "false"

\* handle_get_tracing: the JSON {"enabled": <the flag loaded>}.
handle_get_tracing(flag) == AdminResponse(200, BoolText(flag))

HandleGetTracing ==
    /\ admin' = Some(handle_get_tracing(tracing_enabled))
    /\ UNCHANGED <<mode, config, permits, stats, reqs, tasks, sse, tracing_enabled, snap>>

\* handle_set_tracing taking a payload without the field as enabled = false.
handle_set_tracing_defaults_false(flag, payload) ==
    LET enabled == as_bool(Get(payload, "enabled")) IN
    IF enabled = None
    THEN [resp |-> AdminResponse(400, "missing 'enabled' boolean field"), flag |-> FALSE]
    ELSE LET b == CHOOSE x \in enabled : TRUE IN
         [resp |-> AdminResponse(200, BoolText(b)), flag |-> b]

\* handle_set_tracing: the response and the flag after the request; payload
\* is the JSON value the handler is given.
handle_set_tracing(flag, payload) ==
    LET enabled == as_bool(Get(payload, "enabled")) IN
    IF enabled = None
    THEN [resp |-> AdminResponse(400, "missing 'enabled' boolean field"), flag |-> flag]
    ELSE LET b == CHOOSE x \in enabled : TRUE IN
         [resp |-> AdminResponse(200, BoolText(b)), flag |-> b]

HandleSetTracing(payload) ==
    /\ tracing_enabled' = handle_set_tracing(tracing_enabled, payload).flag
    /\ admin' = Some(handle_set_tracing(tracing_enabled, payload).resp)
    /\ UNCHANGED <<mode, config, permits, stats, reqs, tasks, sse, snap>>

\* handle_health: 200 "ok".
HandleHealth ==
    /\ admin' = Some(AdminResponse(200, "ok"))
    /\ UNCHANGED <<mode, config, permits, stats, reqs, tasks, sse, tracing_enabled, snap>>


--------------------------------------------------------------------------
(***************************************************************************)
(* Inputs.                                                                 *)
(***************************************************************************)
SeqsUpTo(S, n) == UNION {[1..k -> S] : k \in 0..n}


\* Client request headers: one of each class the forwarders treat apart.
ClientHeaders ==
    << <<"host", "proxy.local">>, <<"content-type", "text/plain">>,
       <<"content-length", "42">>, <<CORRELATION_HEADER, "client-id">>,
       <<"x-api-key", "sk-key">>, <<"anthropic-version", "2023-06-01">> >>

StreamingBody ==
    JsonObject(<<Field("model", JStr("m"), "compact"),
                 Field("messages", JOther("msgs"), "spaced"),
                 Field("stream", JBool(TRUE), "compact")>>)
PlainBody ==
    JsonObject(<<Field("model", JStr("m"), "compact"),
                 Field("max_tokens", JNum(8), "compact"),
                 Field("messages", JOther("msgs"), "compact"),
                 Field("stream", JBool(FALSE), "compact")>>)
BadBody == NotJson("not json")

\* Upstream response headers: an ordinary one, a hop-by-hop one, the
\* upstream's request id, and a correlation header of the upstream's own.
UpstreamHeaders ==
    << <<"content-type", "text/event-stream">>, <<"connection", "keep-alive">>,
       <<"x-request-id", "req_1">>, <<CORRELATION_HEADER, "upstream-id">> >>

SendResults ==
    {SendTimeout, SendError, SendOk(200, UpstreamHeaders), SendOk(500, <<>>)}

\* SSE frames.
MessageStart(n) ==
    Frame("message_start", [JsonData EXCEPT !.role = Some("assistant"), !.m_in = n])
MessageDelta(out, in) ==
    Frame("message_delta", [JsonData EXCEPT !.u_out = out, !.u_in = in])
ToolUseStart ==
    Frame("content_block_start",
          [JsonData EXCEPT !.cb = TRUE, !.cb_type = Some("tool_use"),
                           !.cb_name = Some("bash"), !.index = Some(0)])
JsonDelta ==
    Frame("content_block_delta",
          [JsonData EXCEPT !.index = Some(0), !.delta_type = Some("input_json_delta"),
                           !.delta_str = Some(<<"{}">>)])

\* A non-streaming response document, in two pieces.
ResponseDoc ==
    [JsonData EXCEPT !.role = Some("assistant"), !.u_in = Some(3), !.u_out = Some(1),
        !.content = Some(<<Block(Some("text"), Some(<<"OK">>), None, None)>>)]

\* The chunks an upstream body is made of.
Chunks ==
    {MessageStart(Some(3)), MessageDelta(Some(2), Some(5)),
     <<JsonOpen(ResponseDoc)>>, <<JsonClose>>}

\* The events of a buffered streaming body (SpecSSE): frames with and
\* without token counts, a frame without a data line, a frame whose data is
\* not JSON, and an event the consumers do not know.
SseEvents ==
    {MessageStart(Some(3)), MessageStart(Some(7)), MessageStart(None),
     MessageDelta(Some(2), Some(5)), MessageDelta(Some(4), None),
     ToolUseStart, JsonDelta,
     <<EventLine("message_start"), BlankLine>>,
     Frame("message_delta", NoData),
     Frame("ping", JsonData)}

(***************************************************************************)
(* SpecSSE: the two SSE consumers applied to a buffered body.              *)
(***************************************************************************)
NoSse == [body |-> <<>>, calls |-> None, attrs |-> None]

InitSSE ==
    /\ mode = as_u8(TargetOnly)
    /\ config = [anthropic_only_allowed |-> FALSE, model_override |-> None,
                 preserve_order |-> FALSE]
    /\ permits = MaxConcurrent
    /\ stats = StatsNew
    /\ reqs = <<>>
    /\ tasks = <<>>
    /\ admin = None
    /\ tracing_enabled = TRUE
    /\ snap = NoSnap
    /\ sse \in {[NoSse EXCEPT !.body = Flatten(es)] : es \in SeqsUpTo(SseEvents, MaxEvents)}

\* extract_streaming_stats runs over the body.
RunStats ==
    /\ sse.calls = None
    /\ LET calls == extract_streaming_stats(sse.body) IN
       /\ sse' = [sse EXCEPT !.calls = Some(calls)]
       /\ stats' = ApplyCalls(stats, calls)
    /\ UNCHANGED <<mode, config, permits, reqs, tasks, admin, tracing_enabled, snap>>

\* set_streaming_response_attributes runs over the body.
RunAttrs ==
    /\ sse.attrs = None
    /\ sse' = [sse EXCEPT !.attrs = Some(set_streaming_response_attributes(NoAttrs, sse.body))]
    /\ UNCHANGED <<mode, config, permits, stats, reqs, tasks, admin, tracing_enabled, snap>>

NextSSE == RunStats \/ RunAttrs

SpecSSE == InitSSE /\ [][NextSSE]_vars

(***************************************************************************)
(* Spec: the server with MaxReqs requests in any interleaving.             *)
(***************************************************************************)
\* The launch configurations of the build without preserve_order, and those
\* of either build.  Which feature the build has is not fixed by the
\* sources; it decides only the order of the keys of a rewritten body,
\* which SpecRewrite follows under both.
Configs ==
    [anthropic_only_allowed : BOOLEAN, model_override : {None, Some("override-x")},
     preserve_order : {FALSE}]
AnyBuildConfigs ==
    [anthropic_only_allowed : BOOLEAN, model_override : {None, Some("override-x")},
     preserve_order : BOOLEAN]

InitServer(Rs, Cs) ==
    /\ mode \in {as_u8(m) : m \in ProxyModes}
    /\ config \in Cs
    /\ permits = MaxConcurrent
    /\ stats = StatsNew
    /\ reqs = [r \in Rs |-> NewReq]
    /\ tasks = [r \in Rs |-> NoTask]
    /\ sse = NoSse
    /\ admin = None
    /\ tracing_enabled = TRUE
    /\ snap = NoSnap

Streamed(r) == Len(reqs[r].inner)

CompareResults == {SendOk(200, <<>>), SendOk(500, <<>>), SendError, SendTimeout}

\* The reads of a compare response body: failed, or a body without usage.
CompareReads == {ReadFailed, CompareDoc(TRUE, None)}
\* Every read: also a body that is not JSON, and bodies with a usage member
\* (both counts; a count missing and a negative one).
UsageReads ==
    CompareReads \cup {CompareDoc(FALSE, None), CompareDoc(TRUE, Usage(Some(3), Some(5))),
                       CompareDoc(TRUE, Usage(None, Some(-1)))}

PutModePayloads == {None, Some("bogus")} \cup {Some(m) : m \in ProxyModes}

\* The server is launched with default_mode = "compare" and receives no
\* admin request: every request dispatches a compare task.
Init ==
    /\ InitServer(1..MaxReqs, {c \in Configs : c.model_override = None})
    /\ mode = as_u8(Compare)

\* A short upstream body: at most one chunk.
PollShort(r) ==
    \/ Streamed(r) = 0 /\ PollNext(r, ItemChunk(MessageStart(Some(3))))
    \/ PollNext(r, ItemEnd)

Next ==
    \/ \E r \in DOMAIN reqs : HandleMessages(r, <<>>, StreamingBody)
    \/ \E r \in DOMAIN reqs, res \in {SendTimeout, SendOk(200, <<>>)} :
            ForwardResult(r, res)
    \/ \E r \in DOMAIN reqs : PollShort(r)
    \/ \E r \in DOMAIN tasks : CompareAcquire(r)
    \/ \E r \in DOMAIN tasks, res \in {SendOk(200, <<>>), SendTimeout} :
            CompareResult(r, res)
    \/ \E r \in DOMAIN tasks, read \in CompareReads : CompareBody(r, read)

Spec == Init /\ [][Next]_vars

(***************************************************************************)
(* SpecPair: two requests with the same inputs, in any mode and any        *)
(* interleaving with mode changes, to compare the response of one with the *)
(* response of the other.                                                  *)
(***************************************************************************)
InitPair == InitServer({1, 2}, {c \in Configs : c.model_override = None})

NextPair ==
    \/ \E r \in DOMAIN reqs : HandleMessages(r, <<>>, StreamingBody)
    \/ \E r \in DOMAIN reqs, res \in {SendTimeout, SendOk(200, UpstreamHeaders)} :
            ForwardResult(r, res)
    \/ \E r \in DOMAIN reqs : PollShort(r)
    \/ \E r \in DOMAIN tasks : CompareAcquire(r)
    \/ \E r \in DOMAIN tasks, res \in CompareResults : CompareResult(r, res)
    \/ \E r \in DOMAIN tasks, read \in CompareReads : CompareBody(r, read)
    \/ \E m \in ProxyModes : HandleSetMode(Some(m))

SpecPair == InitPair /\ [][NextPair]_vars

(***************************************************************************)
(* SpecOne: one request, with every input of the model.                    *)
(***************************************************************************)
InitOne == InitServer({1}, Configs)

NextOne ==
    \/ \E h \in {<<>>, ClientHeaders}, b \in {StreamingBody, PlainBody, BadBody} :
            HandleMessages(1, h, b)
    \/ \E res \in SendResults : ForwardResult(1, res)
    \/ \E c \in Chunks : Streamed(1) < MaxChunks /\ PollNext(1, ItemChunk(c))
    \/ PollNext(1, ItemErr)
    \/ PollNext(1, ItemEnd)
    \/ CompareAcquire(1)
    \/ \E res \in CompareResults : CompareResult(1, res)
    \/ \E read \in CompareReads : CompareBody(1, read)
    \/ \E m \in ProxyModes : HandleSetMode(Some(m))

SpecOne == InitOne /\ [][NextOne]_vars

(***************************************************************************)
(* SpecAdmin: admin requests of every kind interleaved with one request.   *)
(***************************************************************************)
InitAdmin == InitServer({1}, Configs)

NextAdmin ==
    \/ \E p \in PutModePayloads : HandleSetMode(p)
    \/ HandleMessages(1, <<>>, StreamingBody)
    \/ \E res \in {SendTimeout, SendOk(200, <<>>)} : ForwardResult(1, res)
    \/ PollShort(1)

SpecAdmin == InitAdmin /\ [][NextAdmin]_vars

(***************************************************************************)
(* SpecRewrite: the handler applied to request bodies of every shape,      *)
(* under both builds of serde_json's Map.                                  *)
(***************************************************************************)
\* The members a request body is written with: the two keys the rewrite
\* touches (set, null, written twice with different values) and others, in
\* serde_json's compact spelling or another.
FieldPool ==
    {Field("model", JStr("m"), "compact"), Field("model", JStr("m2"), "spaced"),
     Field("max_tokens", JNum(8), "compact"), Field("max_tokens", JNull, "compact"),
     Field("messages", JOther("msgs"), "spaced"), Field("stream", JBool(TRUE), "compact"),
     Field("extra", JOther("x"), "compact")}

RewriteBodies ==
    {JsonObject(fs) : fs \in SeqsUpTo(FieldPool, MaxFields)}
    \cup {JsonNonObject(JOther("array"), "spaced"), JsonNonObject(JNum(1), "compact"),
          BadBody}

InitRewrite == InitServer({1}, AnyBuildConfigs)

NextRewrite == \E b \in RewriteBodies : HandleMessages(1, <<>>, b)

SpecRewrite == InitRewrite /\ [][NextRewrite]_vars

(***************************************************************************)
(* SpecValidate: validate_request over request bodies, called on the bytes *)
(* as they are and from the handler on the rewritten body.                 *)
(***************************************************************************)
\* The contents of a message: a string, blocks of the known types, blocks of
\* other types (alone, repeated, in either order), a tool_result whose
\* content holds blocks, a block without a type, a text block without text.
Contents ==
    LET block(t) == RawBlock(Some(t), TRUE, <<>>)
    IN {<<block("text")>>,
        <<block("image"), block("tool_use"), block("tool_result")>>,
        <<block("thinking")>>,
        <<block("thinking"), block("text"), block("thinking")>>,
        <<block("citations"), block("thinking")>>,
        <<RawBlock(Some("tool_result"), TRUE, <<"text">>)>>,
        <<RawBlock(Some("tool_result"), TRUE, <<"thinking">>)>>,
        <<RawBlock(None, TRUE, <<>>)>>,
        <<RawBlock(Some("text"), FALSE, <<>>)>>}

Messages ==
    {TextMessage(role) : role \in {"user", "assistant"}}
    \cup {BlocksMessage(role, c) : role \in {"user", "assistant"}, c \in Contents}
    \cup {TextMessage("system")}

\* A request with the three required members.
Request(msgs) ==
    JsonObject(<<Field("model", JStr("m"), "compact"),
                 Field("max_tokens", JNum(8), "compact"),
                 Field("messages", JMessages(msgs), "compact")>>)

\* Requests the typed parse refuses or accepts for their members: a required
\* member missing, of another type or written twice, a stream that is not a
\* boolean, a member the type does not know, a document that is no object.
Envelopes ==
    LET model == Field("model", JStr("m"), "compact")
        max_tokens == Field("max_tokens", JNum(8), "compact")
        messages == Field("messages",
                          JMessages(<<BlocksMessage("assistant",
                                        <<RawBlock(Some("thinking"), TRUE, <<>>)>>)>>),
                          "compact")
    IN {JsonObject(fs) : fs \in
            {<<max_tokens, messages>>, <<model, messages>>, <<model, max_tokens>>,
             <<model, Field("max_tokens", JStr("8"), "compact"), messages>>,
             <<Field("model", JNull, "compact"), max_tokens, messages>>,
             <<model, max_tokens, Field("messages", JOther("msgs"), "compact")>>,
             <<model, model, max_tokens, messages>>,
             <<model, max_tokens, messages, Field("stream", JNull, "compact")>>,
             <<model, max_tokens, messages, Field("stream", JBool(TRUE), "compact")>>,
             <<model, max_tokens, messages, Field("extra", JOther("x"), "compact"),
               Field("extra", JOther("x"), "compact")>>}}
       \cup {JsonNonObject(JOther("array"), "compact")}

ValidateBodies == {Request(msgs) : msgs \in SeqsUpTo(Messages, MaxMsgs)} \cup Envelopes

InitValidate ==
    /\ mode = as_u8(TargetOnly)
    /\ config \in Configs
    /\ permits = MaxConcurrent
    /\ stats = StatsNew
    /\ reqs \in {[r \in {1} |-> [NewReq EXCEPT !.client_body = b]] : b \in ValidateBodies}
    /\ tasks = [r \in {1} |-> NoTask]
    /\ sse = NoSse
    /\ admin = None
    /\ tracing_enabled = TRUE
    /\ snap = NoSnap

\* validate_request called on the bytes of a request and their untyped parse.
Validate(r) ==
    /\ reqs[r].pc = "new"
    /\ reqs' = [reqs EXCEPT ![r].body = reqs[r].client_body,
                            ![r].report = Some(validate_request(reqs[r].client_body,
                                                                reqs[r].client_body)),
                            ![r].pc = "validated"]
    /\ UNCHANGED <<mode, config, permits, stats, tasks, sse, admin, tracing_enabled, snap>>

NextValidate ==
    \/ Validate(1)
    \/ HandleMessages(1, <<>>, reqs[1].client_body)

SpecValidate == InitValidate /\ [][NextValidate]_vars

(***************************************************************************)
(* SpecHeaders: one request with any headers, in every mode.               *)
(***************************************************************************)
\* One client header of every name the forwarders tell apart, and names
\* they copy; a header map yields its entries in the order of the sequence
\* and may hold a name more than once.
HeaderPool ==
    {<<n, "hop">> : n \in HOP_BY_HOP_HEADERS}
    \cup {<<"content-type", "text/plain">>, <<"content-length", "42">>,
          <<CORRELATION_HEADER, "client-id">>, <<"x-api-key", "sk-key">>,
          <<"authorization", "Bearer t">>, <<"anthropic-version", "2023-06-01">>,
          <<"anthropic-beta", "a">>, <<"anthropic-beta", "b">>, <<"trailer", "x">>}

InitHeaders == InitServer({1}, {c \in Configs : c.model_override = None})

NextHeaders == \E h \in SeqsUpTo(HeaderPool, MaxHeaders) : HandleMessages(1, h, PlainBody)

SpecHeaders == InitHeaders /\ [][NextHeaders]_vars

(***************************************************************************)
(* SpecFallback: one request to the catch-all, interleaved with changes of *)
(* the mode.                                                               *)
(***************************************************************************)
FallbackRequests ==
    {FallbackRequest(m, p, q, h, b, ok) :
        m \in {"GET", "POST"}, p \in {"/v1/models", "/v1/messages/count_tokens"},
        q \in {None, Some("beta=true")}, h \in {ClientHeaders},
        b \in {PlainBody, BadBody}, ok \in BOOLEAN}

InitFallback == InitServer({1}, {c \in Configs : c.model_override = None})

NextFallback ==
    \/ \E request \in FallbackRequests : HandleFallback(1, request)
    \/ \E res \in SendResults : ForwardRawResult(1, res)
    \/ \E c \in Chunks : Streamed(1) < MaxChunks /\ PollRaw(1, ItemChunk(c))
    \/ PollRaw(1, ItemErr)
    \/ PollRaw(1, ItemEnd)
    \/ \E m \in ProxyModes : HandleSetMode(Some(m))

SpecFallback == InitFallback /\ [][NextFallback]_vars

(***************************************************************************)
(* SpecUsage: two requests in compare mode whose primary and compare       *)
(* responses both carry token counts.                                      *)
(***************************************************************************)
InitUsage ==
    /\ InitServer({1, 2}, {c \in Configs : c.model_override = None /\ ~c.anthropic_only_allowed})
    /\ mode = as_u8(Compare)

NextUsage ==
    \/ \E r \in DOMAIN reqs : HandleMessages(r, <<>>, StreamingBody)
    \/ \E r \in DOMAIN reqs, res \in {SendTimeout, SendOk(200, <<>>)} :
            ForwardResult(r, res)
    \/ \E r \in DOMAIN reqs : PollShort(r)
    \/ \E r \in DOMAIN tasks : CompareAcquire(r)
    \/ \E r \in DOMAIN tasks, res \in CompareResults : CompareResult(r, res)
    \/ \E r \in DOMAIN tasks, read \in UsageReads : CompareBody(r, read)

SpecUsage == InitUsage /\ [][NextUsage]_vars

(***************************************************************************)
(* SpecReport: one request for each outcome of the validation (a clean     *)
(* report, medium findings, a failed typed parse, no report at all), in    *)
(* every mode, up to the upstream's answer.                                *)
(***************************************************************************)
ReportBodies ==
    {Request(<<TextMessage("user")>>),
     Request(<<BlocksMessage("assistant", <<RawBlock(Some("thinking"), TRUE, <<>>),
                                            RawBlock(Some("text"), TRUE, <<>>)>>)>>),
     Request(<<TextMessage("system")>>),
     StreamingBody,
     BadBody}

InitReport == InitServer({1}, Configs)

NextReport ==
    \/ \E h \in {<<>>, ClientHeaders}, b \in ReportBodies : HandleMessages(1, h, b)
    \/ \E res \in SendResults : ForwardResult(1, res)
    \/ PollShort(1)

SpecReport == InitReport /\ [][NextReport]_vars

--------------------------------------------------------------------------
(***************************************************************************)
(* Properties.                                                             *)
(***************************************************************************)
Handled(r) == reqs[r].mode # None
ModeRead(r) == CHOOSE m \in reqs[r].mode : TRUE
InFlight == {r \in DOMAIN tasks : tasks[r].pc \in {"sending", "reading"}}
Dests(req) == [i \in 1..Len(req.upstream) |-> req.upstream[i].dest]

\* C1: for every response built from a successful send, in every mode, for
\* any upstream status and any stream flag, the sequence of items TeeBody
\* yields to the client is exactly the sequence the upstream stream yielded:
\* the same chunks with the same boundaries in the same order, none added,
\* dropped, merged, split or withheld.
C1_TeeYieldsUpstreamChunks ==
    \A r \in DOMAIN reqs : reqs[r].out = reqs[r].inner

\* C1 witness: a complete body of two different chunks was relayed.
C1_Witness ==
    \E r \in DOMAIN reqs :
        /\ reqs[r].pc = "done" /\ Len(reqs[r].out) = 3
        /\ reqs[r].out[1] # reqs[r].out[2]
        /\ reqs[r].out[3] = ItemEnd

\* C2: every response returned for a proxied request carries the
\* x-shadow-request-id header with the request's correlation ID, error
\* responses (502, 504, 403) included.
C2_EveryResponseCarriesCorrelationId ==
    \A r \in DOMAIN reqs :
        \A i \in 1..Len(reqs[r].resp) :
            \E j \in 1..Len(reqs[r].resp[i].headers) :
                reqs[r].resp[i].headers[j] = <<CORRELATION_HEADER, reqs[r].correlation_id>>

\* The x-shadow-request-id values of the primary upstream requests and of
\* the compare requests of r are the correlation ID generated for r, and
\* nothing else (the client's own value is not copied).
CorrelationIdOnRequests(r) ==
    /\ Handled(r) => reqs[r].correlation_id = generate_id(r)
    /\ \A i \in 1..Len(reqs[r].upstream) :
          Values(reqs[r].upstream[i].headers, CORRELATION_HEADER)
              = <<reqs[r].correlation_id>>
    /\ \A i \in 1..Len(tasks[r].sent) :
          Values(tasks[r].sent[i].headers, CORRELATION_HEADER)
              = <<reqs[r].correlation_id>>

\* C3: the correlation ID generated at the start of handling is the
\* x-shadow-request-id value of the primary upstream request, of the
\* compare request and of the client response of a successful forward; the
\* x-shadow-request-id sent by the client is never copied upstream.
C3_CorrelationIdPropagated ==
    \A r \in DOMAIN reqs :
        /\ CorrelationIdOnRequests(r)
        /\ \A i \in 1..Len(reqs[r].resp) :
              reqs[r].resp[i].body.kind = "stream" =>
                Values(reqs[r].resp[i].headers, CORRELATION_HEADER)
                    = <<reqs[r].correlation_id>>

CountCalls(calls, f) == Cardinality({i \in 1..Len(calls) : calls[i].f = f})

\* C4: for any sequence of SSE events, with message_start and message_delta
\* events carrying input_tokens in any order and number, the stats extractor
\* calls add_input_tokens at most once.
C4_InputTokensAddedAtMostOnce ==
    \A calls \in sse.calls : CountCalls(calls, "add_input_tokens") <= 1

\* The input_tokens value of the first event, in stream order, that carries
\* one (a message_start in message.usage, a message_delta in usage).
RECURSIVE FirstInputTokens(_)
FirstInputTokens(evs) ==
    IF evs = <<>> THEN None
    ELSE LET ds == Parsed(Head(evs))
             d  == CHOOSE x \in ds : TRUE
             et == event_type(Head(evs))
             v  == IF ds = {} THEN None
                   ELSE IF et = Some("message_start") THEN d.m_in
                   ELSE IF et = Some("message_delta") THEN d.u_in
                   ELSE None
         IN IF v # {} THEN v ELSE FirstInputTokens(Tail(evs))

\* C5: for any SSE event sequence, llm.token_count.prompt on the span is the
\* input_tokens value of the first message_start or message_delta event, in
\* stream order, that carries one; a later event never replaces it.
C5_PromptIsFirstInputTokens ==
    \A attrs \in sse.attrs : attrs.prompt = FirstInputTokens(SplitEvents(sse.body))

\* C6: at every moment the number of compare requests in flight to the
\* target is at most max_concurrent, and a task whose acquire failed has
\* sent no request.
C6_CompareInFlightBounded ==
    /\ Cardinality(InFlight) <= MaxConcurrent
    /\ \A r \in DOMAIN tasks : tasks[r].pc = "dropped" => tasks[r].sent = <<>>

\* C6 witness: the semaphore is saturated and a task was dropped.
C6_Witness ==
    /\ Cardinality(InFlight) = MaxConcurrent
    /\ \E r \in DOMAIN tasks : tasks[r].pc = "dropped"

\* C7: dispatch never waits: in every state dispatch can spawn its task and
\* return, and a request arriving while no permit is free is handled up to
\* its primary send; a spawned task can always take its first step, and
\* when no permit is free that one step logs the drop and ends the task,
\* which takes no further step and never waits for a permit.
C7_DispatchNeverBlocks ==
    /\ [](\A r \in DOMAIN reqs :
            /\ ENABLED dispatch(r, reqs[r].body, generate_id(r))
            /\ (reqs[r].pc = "new" /\ permits = 0)
                    => ENABLED HandleMessages(r, <<>>, StreamingBody)
            /\ tasks[r].pc = "spawned" => ENABLED CompareAcquire(r))
    /\ [][\A r \in DOMAIN tasks :
            /\ (tasks[r].pc = "spawned" /\ permits = 0 /\ tasks'[r] # tasks[r])
                => /\ tasks'[r].pc = "dropped"
                   /\ tasks'[r].log = "Compare semaphore full, dropping request"
                   /\ permits' = permits
            /\ tasks[r].pc = "dropped" => tasks'[r] = tasks[r]]_vars

\* C7 witness: with no permit free, a request was handled and is waiting
\* for its primary upstream while its compare task was dropped.
C7_Witness ==
    \E r \in DOMAIN reqs :
        /\ permits = 0 /\ Cardinality(InFlight) = MaxConcurrent
        /\ tasks[r].pc = "dropped" /\ reqs[r].pc = "sent"
        /\ tasks[r].log = "Compare semaphore full, dropping request"

\* The client-visible part of a request: status, headers (with the
\* request's own correlation ID written as "<id>") and the items yielded.
Visible(req) ==
    [resp |-> [i \in 1..Len(req.resp) |->
                [status |-> req.resp[i].status,
                 headers |-> [j \in 1..Len(req.resp[i].headers) |->
                    IF req.resp[i].headers[j][2] = req.correlation_id
                    THEN <<req.resp[i].headers[j][1], "<id>">>
                    ELSE req.resp[i].headers[j]],
                 body |-> req.resp[i].body]],
     out |-> req.out]

\* C8: the client-visible response of a compare-mode request does not
\* depend on the compare path: it equals the response of an anthropic-only
\* request, and of any other compare-mode request, with the same
\* passthrough upstream behaviour, whatever the compare task of either did
\* (success, non-2xx, transport error, timeout, drop at capacity); and
\* the primary forward never waits for the task: the upstream's answer and
\* the next item of the body are taken whatever state the task is in.
C8_CompareInvisibleToClient ==
    /\ \A r, q \in DOMAIN reqs :
          (/\ reqs[r].mode = Some(Compare)
           /\ \/ reqs[q].mode = Some(Compare)
              \/ reqs[q].mode = Some(AnthropicOnly) /\ config.anthropic_only_allowed
           /\ reqs[r].result = reqs[q].result /\ reqs[r].inner = reqs[q].inner)
          => Visible(reqs[r]) = Visible(reqs[q])
    /\ \A r \in DOMAIN reqs :
          reqs[r].mode = Some(Compare) =>
            /\ reqs[r].pc = "sent" =>
                    ENABLED ForwardResult(r, SendOk(200, UpstreamHeaders))
            /\ reqs[r].pc = "streaming" => ENABLED PollNext(r, ItemErr)

\* C8 witness: a compare-mode request and an anthropic-only request got the
\* same complete upstream response while the compare task failed.
C8_Witness ==
    \E r, q \in DOMAIN reqs :
        /\ reqs[r].mode = Some(Compare) /\ reqs[q].mode = Some(AnthropicOnly)
        /\ reqs[r].pc = "done" /\ reqs[q].pc = "done"
        /\ reqs[r].result = reqs[q].result /\ reqs[r].inner = reqs[q].inner
        /\ Len(reqs[r].out) = 2
        /\ tasks[r].pc = "done" /\ tasks[r].status = Some(0)

\* C9: a request is routed by the mode read for it: target mode sends one
\* forward to the target and neither dispatches a compare task nor touches
\* the passthrough; compare mode dispatches once and sends one forward to
\* the passthrough; anthropic-only mode, when allowed, sends one forward to
\* the passthrough and dispatches nothing.
C9_RoutedByMode ==
    \A r \in DOMAIN reqs :
        IF ~Handled(r) THEN reqs[r].upstream = <<>> /\ tasks[r].spawns = 0
        ELSE /\ ModeRead(r) = TargetOnly =>
                    Dests(reqs[r]) = <<"target">> /\ tasks[r].spawns = 0
             /\ ModeRead(r) = Compare =>
                    Dests(reqs[r]) = <<"passthrough">> /\ tasks[r].spawns = 1
             /\ (ModeRead(r) = AnthropicOnly /\ config.anthropic_only_allowed) =>
                    Dests(reqs[r]) = <<"passthrough">> /\ tasks[r].spawns = 0

\* C9 witness: a target-mode request completed after the mode was changed.
C9_Witness ==
    \E r \in DOMAIN reqs :
        /\ reqs[r].mode = Some(TargetOnly) /\ get(mode) = Compare
        /\ reqs[r].pc = "done" /\ Dests(reqs[r]) = <<"target">>

\* C10: when the mode read is anthropic-only and anthropic_only_allowed is
\* false, the request is answered 403 with a JSON error body and no request
\* is sent for it, neither to the passthrough nor to the target.
C10_AnthropicOnlyGated ==
    \A r \in DOMAIN reqs :
        (reqs[r].mode = Some(AnthropicOnly) /\ ~config.anthropic_only_allowed)
        => /\ Len(reqs[r].resp) = 1
           /\ reqs[r].resp[1].status = 403
           /\ reqs[r].resp[1].body.kind = "json"
           /\ reqs[r].upstream = <<>>
           /\ tasks[r].spawns = 0 /\ tasks[r].sent = <<>>

\* C10 witness: a request was answered 403 by the gate.
C10_Witness ==
    \E r \in DOMAIN reqs :
        /\ reqs[r].mode = Some(AnthropicOnly) /\ ~config.anthropic_only_allowed
        /\ reqs[r].pc = "done" /\ reqs[r].resp[1].status = 403

\* C11: when anthropic_only_allowed is false, PUT /api/mode with mode
\* anthropic-only is answered 403 and leaves the mode register unchanged;
\* hence from a mode other than anthropic-only no step ever makes the
\* register hold anthropic-only.
C11_AnthropicOnlyNeverSet ==
    /\ [][(HandleSetMode(Some(AnthropicOnly)) /\ ~config.anthropic_only_allowed)
            => /\ admin' # None
               /\ \A a \in admin' : a.status = 403
               /\ mode' = mode]_vars
    /\ [][(~config.anthropic_only_allowed /\ get(mode) # AnthropicOnly)
            => get(mode') # AnthropicOnly]_vars

\* C11 witness: the mode was changed by an admin request, and a later
\* request for anthropic-only was answered 403.
C11_Witness ==
    /\ ~config.anthropic_only_allowed
    /\ \E a \in admin : a.status = 403
    /\ reqs[1].mode = Some(TargetOnly) /\ get(mode) = Compare

\* The result of the primary send of r, once it completed.
SendResult(r) == CHOOSE x \in reqs[r].result : TRUE

\* C12: the primary forwarder answers 504 when the upstream send timed out,
\* 502 on any other transport error, and otherwise the upstream's status
\* code unchanged, success or error.
C12_ForwardStatus ==
    \A r \in DOMAIN reqs :
        reqs[r].result # None =>
            /\ Len(reqs[r].resp) = 1
            /\ reqs[r].resp[1].status =
                    IF SendResult(r).kind = "timeout" THEN 504
                    ELSE IF SendResult(r).kind = "error" THEN 502
                    ELSE SendResult(r).status

\* C12 witness: an upstream error status was returned to the client.
C12_Witness ==
    \E r \in DOMAIN reqs :
        /\ reqs[r].result = Some(SendOk(500, <<>>))
        /\ reqs[r].resp[1].status = 500 /\ reqs[r].pc = "done"

\* C13: when the upstream request timed out, the status recorded on the
\* primary_forward span is 504, the status returned to the client.
C13_TimeoutSpanStatus ==
    \A r \in DOMAIN reqs :
        reqs[r].result = Some(SendTimeout) =>
            /\ reqs[r].fwd_status = Some(504)
            /\ reqs[r].fwd_status = Some(reqs[r].resp[1].status)

\* C14: for every request, in every outcome, at most one request is sent to
\* the primary upstream and at most one compare request to the target: a
\* failed send is never repeated.
C14_NoRetry ==
    \A r \in DOMAIN reqs :
        /\ Len(reqs[r].upstream) <= 1
        /\ tasks[r].spawns <= 1
        /\ Len(tasks[r].sent) <= 1

\* C14 witness: the primary send timed out and the compare send failed, and
\* each was sent once.
C14_Witness ==
    \E r \in DOMAIN reqs :
        /\ reqs[r].result = Some(SendTimeout) /\ reqs[r].pc = "done"
        /\ tasks[r].pc = "done" /\ tasks[r].status = Some(0)
        /\ Len(reqs[r].upstream) = 1 /\ Len(tasks[r].sent) = 1

\* The members of a body other than model and max_tokens, in the order
\* written.
OtherFields(body) ==
    SelectSeq(body.fields, LAMBDA f : f.k \notin {"model", "max_tokens"})

C16_OtherFieldsPreserved ==
    \A r \in DOMAIN reqs :
        (Handled(r) /\ reqs[r].client_body.kind = "object") =>
            OtherFields(reqs[r].body) = OtherFields(reqs[r].client_body)

\* C17: rewriting is idempotent: for every body and every model override,
\* rewriting the rewritten body with no override yields exactly the bytes
\* of the first rewrite.
C17_RewriteIdempotent ==
    \A r \in DOMAIN reqs :
        Handled(r) =>
            LET first == rewrite_request_body(reqs[r].client_body, config.model_override)
            IN  first.ok =>
                    /\ reqs[r].body = first.bytes
                    /\ rewrite_request_body(first.bytes, None)
                            = [ok |-> TRUE, bytes |-> first.bytes]

\* C17 witness: a body of three members, written in another order and
\* spelling than the rewrite's, was rewritten with an override.
C17_Witness ==
    \E r \in DOMAIN reqs :
        /\ Handled(r) /\ config.model_override # None
        /\ reqs[r].client_body.kind = "object"
        /\ Len(reqs[r].client_body.fields) = 3
        /\ Len(reqs[r].body.fields) = 4
        /\ reqs[r].body # reqs[r].client_body

\* C18: a request whose body is not valid JSON is handled like any other as
\* far as routing goes: the rewrite having failed, the bytes forwarded are the
\* client's, unchanged, to the upstream the mode read selects (the target in
\* target mode; the passthrough in compare mode, with the compare task
\* spawned on the same bytes; the passthrough in an allowed anthropic-only
\* mode; the disallowed anthropic-only mode answers 403 as it does for every
\* body).  The request attributes are not set and no validation report is
\* emitted, the model is "unknown", streaming is false, the request counter
\* counts the request, and no response is made up for the body.
C18_InvalidJsonForwardedUnchanged ==
    \A r \in DOMAIN reqs :
        (Handled(r) /\ reqs[r].client_body.kind = "invalid") =>
            /\ reqs[r].body = reqs[r].client_body
            /\ ~reqs[r].request_attrs /\ reqs[r].report = None
            /\ reqs[r].model = "unknown" /\ ~reqs[r].is_streaming
            /\ stats.total_requests >= Cardinality({q \in DOMAIN reqs : Handled(q)})
            /\ IF ModeRead(r) = AnthropicOnly /\ ~config.anthropic_only_allowed
               THEN reqs[r].upstream = <<>>
               ELSE /\ Len(reqs[r].upstream) = 1
                    /\ reqs[r].upstream[1].body = reqs[r].client_body
                    /\ reqs[r].upstream[1].dest =
                            (IF ModeRead(r) = TargetOnly THEN "target" ELSE "passthrough")
                    /\ ModeRead(r) = Compare =>
                            /\ tasks[r].spawns = 1
                            /\ tasks[r].pc # "none" => tasks[r].body = reqs[r].client_body
                            /\ \A i \in 1..Len(tasks[r].sent) :
                                    tasks[r].sent[i].body = reqs[r].client_body
                    /\ reqs[r].pc = "sent" => reqs[r].resp = <<>>

C18_Witness ==
    \E r \in DOMAIN reqs :
        /\ reqs[r].client_body = BadBody /\ reqs[r].mode = Some(Compare)
        /\ reqs[r].pc = "done" /\ reqs[r].resp[1].status = 200
        /\ reqs[r].upstream[1].body = BadBody
        /\ Len(tasks[r].sent) = 1

\* The content blocks of the messages of a validated body in the order they
\* are written, each with its type, the index of its message and the role:
\* the blocks of a message's content and, after a tool_result, the blocks of
\* its content.
ContentBlocks(body) ==
    LET msgs == UNION {{v.items} : v \in Get(body, "messages")}
        ms == IF msgs = {} THEN <<>> ELSE CHOOSE x \in msgs : TRUE
        at(i, t) == [type |-> t, message_index |-> i - 1, role |-> ms[i].role]
        of(i, b) == <<at(i, CHOOSE t \in b.type : TRUE)>>
                    \o [k \in 1..Len(b.content) |-> at(i, b.content[k])]
    IN Flatten([i \in 1..Len(ms) |->
            Flatten([j \in 1..Len(ms[i].blocks) |-> of(i, ms[i].blocks[j])])])

\* The members of a sequence, each once, in the order of first occurrence.
FirstOccurrences(seq) ==
    LET first == {i \in 1..Len(seq) : \A j \in 1..(i - 1) : seq[j] # seq[i]}
    IN [k \in 1..Cardinality(first) |->
            seq[CHOOSE i \in first : Cardinality({j \in first : j < i}) = k - 1]]

\* C19: for every request that passes the typed parse, the report holds no
\* finding for a content block of type text, image, tool_use or tool_result,
\* exactly one finding for every content block of another type, of medium
\* severity and category unknown_content_block, with the type as written,
\* the index of the message and its role, and unknown_block_types lists the
\* types of those blocks, each once, in the order of first occurrence.
C19_UnknownBlocksReported ==
    \A r \in DOMAIN reqs : \A report \in reqs[r].report :
        report.typed_parse_succeeded =>
            LET unknown == SelectSeq(ContentBlocks(reqs[r].body),
                                     LAMBDA b : b.type \notin KnownBlockTypes)
                expected == [k \in 1..Len(unknown) |->
                                Finding("medium", "unknown_content_block",
                                        Some(unknown[k].type),
                                        Some(unknown[k].message_index),
                                        Some(unknown[k].role))]
                count(fs, f) == Cardinality({k \in 1..Len(fs) : fs[k] = f})
            IN /\ Len(report.findings) = Len(expected)
               /\ \A k \in 1..Len(expected) :
                        count(report.findings, expected[k]) = count(expected, expected[k])
               /\ report.unknown_block_types =
                        FirstOccurrences([k \in 1..Len(unknown) |-> unknown[k].type])

\* C20: a request the typed parse refuses (a required member model,
\* max_tokens or messages missing, or a document that is no object) has a
\* report with typed_parse_succeeded false, exactly one finding, of high
\* severity and category typed_parse_failure, and no unknown block type; and
\* the findings of any report are that one high finding or medium findings
\* only.
C20_TypedParseFailureReport ==
    \A r \in DOMAIN reqs : \A report \in reqs[r].report :
        LET high(f) == f.severity = "high" /\ f.category = "typed_parse_failure"
            fs == report.findings
        IN /\ (\/ reqs[r].body.kind # "object"
               \/ \E k \in {"model", "max_tokens", "messages"} :
                        Get(reqs[r].body, k) = None)
                    => ~report.typed_parse_succeeded
           /\ ~report.typed_parse_succeeded =>
                    /\ Len(fs) = 1 /\ high(fs[1])
                    /\ report.unknown_block_types = <<>>
           /\ \/ Len(fs) = 1 /\ high(fs[1])
              \/ \A k \in 1..Len(fs) : fs[k].severity = "medium"

C20_Witness ==
    \E r \in DOMAIN reqs : \E report \in reqs[r].report :
        /\ Get(reqs[r].body, "max_tokens") = None
        /\ \E v \in Get(reqs[r].body, "messages") :
                v.kind = "messages" /\ v.items[1].blocks[1].type = Some("thinking")
        /\ ~report.typed_parse_succeeded
        /\ Len(report.findings) = 1

\* C21: whatever the validation report holds (nothing, medium findings, the
\* high finding of a failed typed parse), the handler forwards the rewritten
\* body, the same bytes the rewrite produced, to the upstream the mode read
\* selects, and the response is the one built from that upstream's answer: no
\* response exists before the upstream answered (but the 403 of the
\* disallowed anthropic-only mode, which every body gets), and the status
\* returned is the upstream's.
C21_ValidationNeverBlocks ==
    \A r \in DOMAIN reqs : \A report \in reqs[r].report :
        LET rw == rewrite_request_body(reqs[r].client_body, config.model_override) IN
        /\ rw.ok /\ reqs[r].body = rw.bytes
        /\ IF ModeRead(r) = AnthropicOnly /\ ~config.anthropic_only_allowed
           THEN reqs[r].upstream = <<>> /\ reqs[r].resp[1].status = 403
           ELSE /\ Len(reqs[r].upstream) = 1
                /\ reqs[r].upstream[1].body = rw.bytes
                /\ reqs[r].upstream[1].dest =
                        (IF ModeRead(r) = TargetOnly THEN "target" ELSE "passthrough")
                /\ ModeRead(r) = Compare =>
                        tasks[r].spawns = 1 /\ tasks[r].body = rw.bytes
                /\ reqs[r].result = None => reqs[r].resp = <<>>
                /\ \A res \in reqs[r].result :
                        /\ Len(reqs[r].resp) = 1
                        /\ res.kind = "ok" => reqs[r].resp[1].status = res.status

C21_Witness ==
    \E r \in DOMAIN reqs : \E report \in reqs[r].report :
        /\ ~report.typed_parse_succeeded
        /\ reqs[r].client_body = Request(<<TextMessage("system")>>)
        /\ reqs[r].pc = "done" /\ reqs[r].resp[1].status = 200
        /\ reqs[r].upstream[1].body = reqs[r].body

\* C22: the headers of the upstream request of /v1/messages are content-type:
\* application/json and the correlation header with the generated id, then
\* every client header, in order, but those named host, connection,
\* transfer-encoding, keep-alive, upgrade, proxy-authenticate,
\* proxy-authorization, te, trailers, content-type, x-shadow-request-id and
\* content-length, and, to the target only, x-api-key.
C22_ForwardedHeaders ==
    \A r \in DOMAIN reqs : \A i \in 1..Len(reqs[r].upstream) :
        LET up == reqs[r].upstream[i]
            dropped == {"host", "connection", "transfer-encoding", "keep-alive", "upgrade",
                        "proxy-authenticate", "proxy-authorization", "te", "trailers",
                        "content-type", "x-shadow-request-id", "content-length"}
                       \cup (IF up.dest = "target" THEN {"x-api-key"} ELSE {})
        IN up.headers =
                << <<"content-type", "application/json">>,
                   <<"x-shadow-request-id", reqs[r].correlation_id>> >>
                \o SelectSeq(reqs[r].headers, LAMBDA h : h[1] \notin dropped)

C22_Witness ==
    \E r \in DOMAIN reqs :
        /\ reqs[r].headers = << <<"x-api-key", "sk-key">>, <<"te", "hop">> >>
        /\ Len(reqs[r].upstream) = 1
        /\ reqs[r].upstream[1].dest = "target"
        /\ Len(reqs[r].upstream[1].headers) = 2

\* The request the catch-all handled for r.
Fallback(r) == CHOOSE x \in reqs[r].fallback : TRUE

\* What holds of every catch-all request: none goes to the target, through
\* the forwarders of /v1/messages or to the compare dispatcher, and at most
\* one goes to the passthrough, with the method, path and query received.
FallbackNeverTarget(r) ==
    /\ reqs[r].upstream = <<>>
    /\ tasks[r].spawns = 0 /\ tasks[r].sent = <<>>
    /\ Len(reqs[r].raw) <= 1
    /\ \A i \in 1..Len(reqs[r].raw) :
            /\ reqs[r].raw[i].dest = "passthrough"
            /\ reqs[r].raw[i].method = Fallback(r).method
            /\ reqs[r].raw[i].path = Fallback(r).path
            /\ reqs[r].raw[i].query =
                    (IF Fallback(r).query = None THEN ""
                     ELSE "?" \o (CHOOSE q \in Fallback(r).query : TRUE))

\* C23 as stated: a request to the catch-all read in target mode is answered
\* 404 and nothing is sent for it; read in any other mode, exactly one
\* request is sent for it, to the passthrough base with the method, path and
\* query received, and none to the target or the compare dispatcher.
C23_FallbackRouting ==
    \A r \in DOMAIN reqs :
        reqs[r].fallback # None =>
            /\ FallbackNeverTarget(r)
            /\ IF ModeRead(r) = TargetOnly
               THEN reqs[r].raw = <<>> /\ reqs[r].resp[1].status = 404
               ELSE Len(reqs[r].raw) = 1

\* C23 amended: read in another mode than target, the request is sent once
\* to the passthrough when its body could be read within the cap, and is
\* answered 400 with nothing sent when it could not.
C23_FallbackRoutingReadable ==
    \A r \in DOMAIN reqs :
        reqs[r].fallback # None =>
            /\ FallbackNeverTarget(r)
            /\ IF ModeRead(r) = TargetOnly
               THEN reqs[r].raw = <<>> /\ reqs[r].resp[1].status = 404
               ELSE IF Fallback(r).readable
               THEN Len(reqs[r].raw) = 1
               ELSE reqs[r].raw = <<>> /\ reqs[r].resp[1].status = 400

C23_Witness ==
    \E r \in DOMAIN reqs :
        /\ reqs[r].fallback # None /\ reqs[r].mode = Some(AnthropicOnly)
        /\ get(mode) = TargetOnly
        /\ Len(reqs[r].raw) = 1 /\ reqs[r].raw[1].query = "?beta=true"
        /\ reqs[r].pc = "done" /\ reqs[r].resp[1].status = 200

\* C24: no step of a compare task (the acquire or the drop, the result of
\* the send, the read of the body, whatever it holds) changes the process
\* stats; the token counts of a compare response are logged only; and a step
\* that changes input_tokens, output_tokens or tool_calls is the end of
\* stream of a primary response, where the tap runs.
C24_CompareLeavesStats ==
    [][/\ (\E r \in DOMAIN tasks :
                tasks[r].pc \in {"spawned", "sending", "reading"} /\ tasks'[r] # tasks[r])
            => stats' = stats
       /\ (\/ stats'.input_tokens # stats.input_tokens
           \/ stats'.output_tokens # stats.output_tokens
           \/ stats'.tool_calls # stats.tool_calls)
            => \E r \in DOMAIN reqs : reqs[r].pc = "streaming" /\ reqs'[r].pc = "done"]_vars

C24_Witness ==
    \E r \in DOMAIN tasks :
        /\ tasks[r].pc = "done"
        /\ tasks[r].usage = Usage(Some(3), Some(5))
        /\ stats.input_tokens = 0 /\ stats.output_tokens = 0

(***************************************************************************)
(* SpecCancel: two responses with token counts, each cut short by the      *)
(* client going away or by an error of the upstream stream, or read to its *)
(* end.                                                                    *)
(***************************************************************************)
InitCancel == InitServer({1, 2}, {c \in Configs : c.model_override = None})

NextCancel ==
    \/ \E r \in DOMAIN reqs : HandleMessages(r, <<>>, StreamingBody)
    \/ \E r \in DOMAIN reqs, res \in {SendTimeout, SendOk(200, <<>>)} : ForwardResult(r, res)
    \/ \E r \in DOMAIN reqs, c \in {MessageStart(Some(3)), MessageDelta(Some(2), Some(5))} :
            Streamed(r) < MaxChunks /\ PollNext(r, ItemChunk(c))
    \/ \E r \in DOMAIN reqs : PollNext(r, ItemErr)
    \/ \E r \in DOMAIN reqs : PollNext(r, ItemEnd)
    \/ \E r \in DOMAIN reqs : ClientDisconnect(r)

SpecCancel == InitCancel /\ [][NextCancel]_vars

\* C25: the step in which a response is cut short (the client goes away, or
\* the upstream stream yields an error) leaves every stats counter as it
\* was and the tap's extraction not run; and nothing runs for that response
\* afterwards, so the bytes it buffered are never counted.
C25_CutShortNeverExtracted ==
    [][\A r \in DOMAIN reqs :
        /\ (reqs[r].pc \in {"sent", "streaming"} /\ reqs'[r].pc \in {"cancelled", "failed"})
                => stats' = stats /\ reqs'[r].extracted = 0
        /\ reqs[r].pc \in {"cancelled", "failed"} => reqs'[r] = reqs[r]]_vars

C25_Witness ==
    /\ reqs[1].pc = "cancelled" /\ reqs[1].buffer = MessageStart(Some(3))
    /\ reqs[2].pc = "failed" /\ reqs[2].buffer = MessageStart(Some(3)) \o MessageDelta(Some(2), Some(5))
    /\ stats.input_tokens = 0 /\ stats.output_tokens = 0

(***************************************************************************)
(* SpecLive: compare tasks under the scheduling of the runtime.  A spawned *)
(* task is polled until it completes; its send completes with an answer,   *)
(* an error or the timeout wrapped around it; the read of the body         *)
(* completes with the body or with an error, at the latest when the total  *)
(* timeout of the target client (main.rs: Client::builder().timeout)       *)
(* elapses.  The client requests are answered, or cancelled by a           *)
(* disconnect, at any point.                                               *)
(***************************************************************************)
InitLive ==
    /\ InitServer(1..MaxReqs, {c \in Configs : c.model_override = None /\ ~c.anthropic_only_allowed})
    /\ mode = as_u8(Compare)

\* What the send of a compare task ends with: the target's answer, a
\* transport error, or the timeout (the target stalls).
LiveResults == {SendOk(200, <<>>), SendError, SendTimeout}

NextLive ==
    \/ \E r \in DOMAIN reqs : HandleMessages(r, <<>>, StreamingBody)
    \/ \E r \in DOMAIN reqs : ForwardResult(r, SendTimeout)
    \/ \E r \in DOMAIN reqs : ClientDisconnect(r)
    \/ \E r \in DOMAIN tasks : CompareAcquire(r)
    \/ \E r \in DOMAIN tasks, res \in LiveResults : CompareResult(r, res)
    \/ \E r \in DOMAIN tasks, read \in CompareReads : CompareBody(r, read)

SpecLive ==
    /\ InitLive /\ [][NextLive]_vars
    /\ \A r \in 1..MaxReqs :
        /\ WF_vars(CompareAcquire(r))
        /\ WF_vars(\E res \in LiveResults : CompareResult(r, res))
        /\ WF_vars(\E read \in CompareReads : CompareBody(r, read))

\* C26: a compare task that holds a permit eventually finishes, whatever
\* the target does and whatever became of the client request; and the
\* permits available are max_concurrent less the tasks in flight, so that
\* with no task in flight every permit is back.
C26_PermitsReturned ==
    /\ [](permits + Cardinality(InFlight) = MaxConcurrent)
    /\ \A r \in 1..MaxReqs : (r \in InFlight) ~> (tasks[r].pc = "done")

C26_Witness ==
    /\ reqs[1].pc = "cancelled"
    /\ tasks[1].pc = "done" /\ tasks[1].log = "Compare request timed out"
    /\ tasks[2].pc = "done" /\ tasks[2].log = "Failed to read compare response body"
    /\ permits = MaxConcurrent

(***************************************************************************)
(* SpecApi: the admin endpoints, with every payload, interleaved with two  *)
(* requests that read the mode.                                            *)
(***************************************************************************)
\* Payloads of PUT /api/tracing: without the field, with it as a boolean,
\* with it as a string or a number, and a JSON value that is not an object.
PutTracingPayloads ==
    {JsonObject(<<>>),
     JsonObject(<<Field("enabled", JBool(TRUE), "compact")>>),
     JsonObject(<<Field("enabled", JBool(FALSE), "compact")>>),
     JsonObject(<<Field("enabled", JStr("true"), "compact")>>),
     JsonObject(<<Field("enabled", JNum(1), "compact")>>),
     JsonNonObject(JBool(TRUE), "compact")}

InitApi == InitServer({1, 2}, Configs)

NextApi ==
    \/ \E r \in DOMAIN reqs : HandleMessages(r, <<>>, StreamingBody)
    \/ \E p \in PutModePayloads : HandleSetMode(p)
    \/ HandleGetMode
    \/ \E p \in PutTracingPayloads : HandleSetTracing(p)
    \/ HandleGetTracing

SpecApi == InitApi /\ [][NextApi]_vars

\* A PUT /api/mode with this mode is accepted.
Accepted(m) == m \in ProxyModes /\ (m = AnthropicOnly => config.anthropic_only_allowed)

\* C27: the register holds the discriminant of one of the three modes; an
\* accepted set makes it hold the mode set and nothing else changes it; and
\* a request reads the mode the register holds at the step of its load,
\* which, with sets in any interleaving, is the mode of the most recent set
\* before it (the old one of a set that comes after, the new one of a set
\* that came before).
C27_ModeRegister ==
    /\ [](mode \in {0, 1, 2} /\ get(mode) \in ProxyModes /\ as_u8(get(mode)) = mode)
    /\ [][/\ \A m \in ProxyModes : (HandleSetMode(Some(m)) /\ Accepted(m)) => get(mode') = m
          /\ mode' # mode => \E m \in ProxyModes : HandleSetMode(Some(m)) /\ Accepted(m)
          /\ \A r \in DOMAIN reqs :
                (reqs[r].pc = "new" /\ reqs'[r].pc # "new")
                    => reqs'[r].mode = Some(get(mode)) /\ mode' = mode]_vars

C27_Witness ==
    /\ reqs[1].mode = Some(TargetOnly) /\ reqs[2].mode = Some(Compare)
    /\ get(mode) = AnthropicOnly
    /\ admin = Some(AdminResponse(200, AnthropicOnly))

\* C28: a PUT /api/mode whose mode is missing or unrecognised is answered
\* 400 and a PUT /api/tracing whose enabled is missing or not a boolean is
\* answered 400, and neither changes the mode or the tracing flag; after an
\* accepted PUT the GET of the same resource returns the value set.
C28_RejectedAdminChangesNothing ==
    [][/\ \A p \in {None, Some("bogus")} :
            HandleSetMode(p) =>
                /\ \A a \in admin' : a.status = 400
                /\ admin' # None
                /\ mode' = mode /\ tracing_enabled' = tracing_enabled
       /\ \A p \in PutTracingPayloads :
            HandleSetTracing(p) =>
                IF p \in {JsonObject(<<Field("enabled", JBool(b), "compact")>>) : b \in BOOLEAN}
                THEN /\ \A a \in admin' : a.status = 200
                     /\ handle_get_tracing(tracing_enabled') =
                            AdminResponse(200, IF p.fields[1].v.n = 1 THEN "true" ELSE "false")
                     /\ mode' = mode
                ELSE /\ \A a \in admin' : a.status = 400
                     /\ admin' # None
                     /\ mode' = mode /\ tracing_enabled' = tracing_enabled
       /\ \A m \in ProxyModes :
            (HandleSetMode(Some(m)) /\ Accepted(m)) =>
                /\ handle_get_mode(mode') = AdminResponse(200, m)
                /\ tracing_enabled' = tracing_enabled]_vars

C28_Witness ==
    /\ ~tracing_enabled
    /\ admin = Some(AdminResponse(400, "missing 'enabled' boolean field"))
    /\ get(mode) = TargetOnly /\ reqs[1].mode = Some(Compare)

(***************************************************************************)
(* SpecTap: one response body of every shape through the tap: streaming or *)
(* not, up to MaxChunks chunks, read to its end, failed by the upstream or *)
(* dropped by the client.                                                  *)
(***************************************************************************)
InitTap == InitServer({1}, {c \in Configs : c.model_override = None})

NextTap ==
    \/ \E b \in {StreamingBody, PlainBody} : HandleMessages(1, <<>>, b)
    \/ \E res \in SendResults : ForwardResult(1, res)
    \/ \E c \in Chunks : Streamed(1) < MaxChunks /\ PollNext(1, ItemChunk(c))
    \/ PollNext(1, ItemErr)
    \/ PollNext(1, ItemEnd)
    \/ ClientDisconnect(1)

SpecTap == InitTap /\ [][NextTap]_vars

\* The bytes the client received: the chunks yielded to it, in order.
RECURSIVE ClientBytes(_)
ClientBytes(out) ==
    IF out = <<>> THEN <<>> ELSE Head(out).bytes \o ClientBytes(Tail(out))

\* C29: in every state the tap's buffer is the concatenation of the chunks
\* yielded to the client; a poll yields the item the upstream stream
\* yielded and nothing else; and at end-of-stream the attributes and the
\* stats are those extracted from the bytes the client received.
C29_BufferIsWhatClientReceived ==
    /\ [](\A r \in DOMAIN reqs : reqs[r].buffer = ClientBytes(reqs[r].out))
    /\ [][\A r \in DOMAIN reqs :
            /\ reqs'[r].out # reqs[r].out =>
                    /\ Len(reqs'[r].inner) = Len(reqs[r].inner) + 1
                    /\ reqs'[r].out = Append(reqs[r].out, reqs'[r].inner[Len(reqs'[r].inner)])
            /\ (reqs[r].pc = "streaming" /\ reqs'[r].pc = "done") =>
                    /\ reqs'[r].out = Append(reqs[r].out, ItemEnd)
                    /\ stats' = ApplyCalls(stats,
                            extract_and_record_stats(ClientBytes(reqs[r].out), reqs[r].is_streaming))
                    /\ reqs'[r].span.attrs =
                            set_response_attributes(reqs[r].span.attrs, ClientBytes(reqs[r].out),
                                                    reqs[r].is_streaming)]_vars

C29_Witness ==
    \E r \in DOMAIN reqs :
        /\ reqs[r].pc = "done" /\ ~reqs[r].is_streaming
        /\ reqs[r].out = <<ItemChunk(<<JsonOpen(ResponseDoc)>>), ItemChunk(<<JsonClose>>), ItemEnd>>
        /\ reqs[r].buffer = <<JsonOpen(ResponseDoc), JsonClose>>
        /\ stats.input_tokens = 3 /\ stats.output_tokens = 1

\* C30: ttft_ms is recorded once, as soon as a chunk has been yielded, and
\* never for a body without chunks; total_duration_ms is recorded and the
\* extraction runs once, in the poll that yields end-of-stream, which comes
\* after every chunk; and nothing runs for the response after that.
C30_TimingRecordedOnce ==
    /\ [](\A r \in DOMAIN reqs :
            LET out == reqs[r].out
                ended == out # <<>> /\ out[Len(out)] = ItemEnd
            IN  /\ reqs[r].span.ttft = IF \E i \in 1..Len(out) : out[i].k = "chunk" THEN 1 ELSE 0
                /\ reqs[r].span.total = IF ended THEN 1 ELSE 0
                /\ reqs[r].extracted = IF ended THEN 1 ELSE 0
                /\ \A i \in 1..(Len(out) - 1) : out[i].k = "chunk")
    /\ [][\A r \in DOMAIN reqs :
            /\ reqs'[r].span.ttft # reqs[r].span.ttft =>
                    reqs[r].out = <<>> /\ Len(reqs'[r].out) = 1 /\ reqs'[r].out[1].k = "chunk"
            /\ (\/ reqs'[r].span.total # reqs[r].span.total
                \/ reqs'[r].extracted # reqs[r].extracted
                \/ stats'.input_tokens # stats.input_tokens
                \/ stats'.output_tokens # stats.output_tokens
                \/ stats'.tool_calls # stats.tool_calls)
                    => \E q \in DOMAIN reqs : reqs'[q].out = Append(reqs[q].out, ItemEnd)
            /\ (reqs[r].out # <<>> /\ reqs[r].out[Len(reqs[r].out)] = ItemEnd)
                    => reqs'[r] = reqs[r]]_vars

C30_Witness ==
    \E r \in DOMAIN reqs :
        /\ reqs[r].pc = "done" /\ reqs[r].is_streaming
        /\ reqs[r].out = <<ItemChunk(MessageStart(Some(3))),
                           ItemChunk(MessageDelta(Some(2), Some(5))), ItemEnd>>
        /\ reqs[r].span.ttft = 1 /\ reqs[r].span.total = 1 /\ reqs[r].extracted = 1

(***************************************************************************)
(* SpecStats: ProxyStats under concurrent callers.  Each update is one     *)
(* fetch_add and each snapshot four loads, one counter after the other,    *)
(* in any interleaving.                                                    *)
(***************************************************************************)
\* The amounts added to a token counter: small ones and the largest u64.
Amounts == {1, 2, U64Modulus - 1}

InitStats ==
    /\ InitServer({1}, {c \in Configs : c.model_override = None /\ ~c.anthropic_only_allowed})
    /\ mode = as_u8(TargetOnly)

\* One caller's update of one counter; snap.added keeps the amounts added.
FetchAdd(f, n) ==
    /\ snap.ops < MaxOps
    /\ stats' = IF f = "total_requests" THEN inc_requests(stats)
                ELSE IF f = "input_tokens" THEN add_input_tokens(stats, n)
                ELSE IF f = "output_tokens" THEN add_output_tokens(stats, n)
                ELSE add_tool_calls(stats, n)
    /\ snap' = [snap EXCEPT !.ops = @ + 1,
                            !.added[f] = @ + (IF f = "total_requests" THEN 1 ELSE n)]
    /\ UNCHANGED <<mode, config, permits, reqs, tasks, sse, admin, tracing_enabled>>

\* One load of snapshot(): the next counter in order; the fourth load
\* completes the snapshot.
SnapshotLoad ==
    /\ Len(snap.taken) < MaxSnaps
    /\ LET loaded == Append(snap.cur, stats[Counters[Len(snap.cur) + 1]]) IN
       snap' = IF Len(loaded) = Len(Counters)
               THEN [snap EXCEPT !.cur = <<>>, !.taken = Append(@, loaded)]
               ELSE [snap EXCEPT !.cur = loaded]
    /\ UNCHANGED <<mode, config, permits, stats, reqs, tasks, sse, admin, tracing_enabled>>

NextStats ==
    \/ \E i \in 1..Len(Counters), n \in Amounts : FetchAdd(Counters[i], n)
    \/ SnapshotLoad

SpecStats == InitStats /\ [][NextStats]_vars

\* C31: in every state each counter holds the sum of the amounts added to
\* it, and no field of a snapshot is below the same field of an earlier
\* snapshot.
C31_CountersAreSums ==
    /\ \A i \in 1..Len(Counters) : stats[Counters[i]] = snap.added[Counters[i]]
    /\ \A a, b \in 1..Len(snap.taken) :
            a < b => \A i \in 1..Len(Counters) : snap.taken[a][i] <= snap.taken[b][i]

\* The same while no counter has been added more than a u64 holds: the
\* updates of concurrent callers are all counted.
CountersAreSumsBelowOverflow ==
    (\A i \in 1..Len(Counters) : snap.added[Counters[i]] < U64Modulus) => C31_CountersAreSums

(***************************************************************************)
(* SpecRoutes: every route of the router.  A request to /v1/messages and   *)
(* a second one to /v1/messages or to a path without a route, with the     *)
(* admin endpoints, /health and /api/stats in any interleaving.            *)
(***************************************************************************)
InitRoutes == InitServer({1, 2}, {c \in Configs : c.model_override = None})

NextRoutes ==
    \/ \E b \in {StreamingBody, BadBody} : HandleMessages(1, <<>>, b)
    \/ HandleMessages(2, <<>>, BadBody)
    \/ \E r \in DOMAIN reqs, res \in {SendTimeout, SendError, SendOk(200, <<>>)} :
            ForwardResult(r, res)
    \/ \E r \in DOMAIN reqs : PollNext(r, ItemEnd)
    \/ \E ok \in BOOLEAN :
            HandleFallback(2, FallbackRequest("POST", "/v1/messages/count_tokens", None,
                                              <<>>, PlainBody, ok))
    \/ \E res \in {SendTimeout, SendOk(200, <<>>)} : ForwardRawResult(2, res)
    \/ PollRaw(2, ItemEnd)
    \/ \E p \in {None, Some(TargetOnly)} : HandleSetMode(p)
    \/ HandleGetMode
    \/ HandleSetTracing(JsonObject(<<Field("enabled", JBool(FALSE), "compact")>>))
    \/ HandleGetTracing
    \/ HandleHealth
    \/ snap.taken = <<>> /\ SnapshotLoad

SpecRoutes == InitRoutes /\ [][NextRoutes]_vars

\* The requests handle_messages has handled.
Counted == {r \in DOMAIN reqs : reqs[r].pc # "new" /\ reqs[r].fallback = None}

\* C32: total_requests is the number of /v1/messages requests handled so
\* far, whatever they were answered; it goes up by one in the step in which
\* handle_messages runs, which is also the step that reads the mode, and no
\* other step (the catch-all, /health, the admin endpoints, the forwarding
\* and streaming of a response) changes it.
C32_TotalRequestsCountsMessages ==
    /\ [](stats.total_requests = Cardinality(Counted))
    /\ [][/\ \A r \in DOMAIN reqs :
                (r \notin Counted /\ r \in Counted') =>
                    /\ stats'.total_requests = stats.total_requests + 1
                    /\ reqs'[r].mode = Some(get(mode))
          /\ Counted' = Counted => stats'.total_requests = stats.total_requests]_vars

C32_Witness ==
    /\ reqs[1].fallback = None /\ reqs[1].resp # <<>> /\ reqs[1].resp[1].status = 403
    /\ reqs[2].fallback # None /\ reqs[2].pc = "done" /\ reqs[2].resp[1].status = 200
    /\ admin = Some(AdminResponse(200, "ok"))
    /\ Len(snap.taken) = 1
    /\ stats.total_requests = 1

(***************************************************************************)
(* SpecBlocks: the SSE consumers over bodies of content_block_start and    *)
(* content_block_delta events with any indices.                            *)
(***************************************************************************)
\* content_block_start with an index, with or without a content_block.
TextStart(i, cb) ==
    Frame("content_block_start",
          [JsonData EXCEPT !.index = Some(i), !.cb = cb,
                           !.cb_type = IF cb THEN Some("text") ELSE None])
\* content_block_delta with an index and a text_delta naming the index.
TextDelta(i) ==
    Frame("content_block_delta",
          [JsonData EXCEPT !.index = Some(i), !.delta_type = Some("text_delta"),
                           !.delta_str = Some(<<IF i = 0 THEN "zero" ELSE "one">>)])

BlockEvents ==
    {TextStart(i, cb) : i \in {0, 1}, cb \in BOOLEAN} \cup {TextDelta(i) : i \in {0, 1}}

InitBlocks ==
    /\ mode = as_u8(TargetOnly)
    /\ config \in {c \in Configs : c.model_override = None /\ ~c.anthropic_only_allowed}
    /\ permits = MaxConcurrent
    /\ stats = StatsNew
    /\ reqs = <<>>
    /\ tasks = <<>>
    /\ admin = None
    /\ tracing_enabled = TRUE
    /\ snap = NoSnap
    /\ sse \in {[NoSse EXCEPT !.body = Flatten(es)] : es \in SeqsUpTo(BlockEvents, MaxEvents)}

SpecBlocks == InitBlocks /\ [][NextSSE]_vars

\* The blocks as the claim has them: a content_block_start with a
\* content_block introduces a block under its index, and a delta is
\* appended to the block introduced last under the delta's index.
RECURSIVE BlocksByStartIndex(_, _)
BlocksByStartIndex(evs, blocks) ==
    IF evs = <<>> THEN blocks
    ELSE LET ds == Parsed(Head(evs))
             d  == CHOOSE x \in ds : TRUE
             et == event_type(Head(evs))
             under == {k \in 1..Len(blocks) : Some(blocks[k].index) = d.index}
         IN  BlocksByStartIndex(Tail(evs),
                IF ds = {} THEN blocks
                ELSE IF et = Some("content_block_start") /\ d.cb
                THEN Append(blocks, [index |-> CHOOSE i \in d.index : TRUE, text |-> <<>>])
                ELSE IF et = Some("content_block_delta") /\ under # {}
                THEN [blocks EXCEPT ![Max(under)].text = @ \o (CHOOSE x \in d.delta_str : TRUE)]
                ELSE blocks)

\* C33: the text accumulated by each block of the reconstruction is the
\* text of the deltas whose index is the index of the content_block_start
\* that introduced the block.
C33_DeltaGoesToBlockOfItsIndex ==
    LET evs == SplitEvents(sse.body)
        got == AttrLoop(evs, AttrInit).blocks
        want == BlocksByStartIndex(evs, <<>>)
    IN  sse.attrs # None =>
            /\ Len(got) = Len(want)
            /\ \A k \in 1..Len(got) : got[k].text = want[k].text

\* The events of a body joined by the separator, as they were split.
RECURSIVE JoinEvents(_)
JoinEvents(chunks) ==
    IF chunks = <<>> THEN <<>>
    ELSE IF Len(chunks) = 1 THEN Head(chunks)
    ELSE Head(chunks) \o <<BlankLine>> \o JoinEvents(Tail(chunks))

\* The body without the events that have no data line or whose data is not
\* JSON (the empty piece after the last separator is no event and stays).
WithoutSkipped(body) ==
    JoinEvents(SelectSeq(SplitEvents(body),
                         LAMBDA chunk : chunk = <<>> \/ Parsed(chunk) # {}))

\* C34 as stated: what each SSE consumer yields for a body is what it
\* yields for the body without the events that have no data line or whose
\* data is not JSON.
C34_SkippedEventsChangeNothing ==
    /\ sse.calls # None => sse.calls = Some(extract_streaming_stats(WithoutSkipped(sse.body)))
    /\ sse.attrs # None =>
            sse.attrs = Some(set_streaming_response_attributes(NoAttrs, WithoutSkipped(sse.body)))

\* C34 amended: the stats calls are those for the body without these
\* events, and so is every span attribute but output.value, which is the
\* body as it was received, skipped events included.
C34_SkippedEventsChangeNothingButOutputValue ==
    /\ sse.calls # None => sse.calls = Some(extract_streaming_stats(WithoutSkipped(sse.body)))
    /\ \A attrs \in sse.attrs :
            /\ attrs.output_value = Some(sse.body)
            /\ [attrs EXCEPT !.output_value = None] =
                    [set_streaming_response_attributes(NoAttrs, WithoutSkipped(sse.body))
                        EXCEPT !.output_value = None]

C34_Witness ==
    /\ sse.body = MessageStart(Some(3)) \o Frame("message_delta", NoData)
                    \o MessageDelta(Some(2), Some(5))
    /\ sse.calls = Some(<<Call("add_input_tokens", 3), Call("add_output_tokens", 2)>>)
    /\ \E attrs \in sse.attrs : attrs.prompt = Some(3) /\ attrs.completion = Some(2)

\* The amount a sequence of stats calls adds to a counter.
RECURSIVE AmountAdded(_, _)
AmountAdded(calls, f) ==
    IF calls = <<>> THEN 0
    ELSE (IF Head(calls).f = f THEN Head(calls).n ELSE 0) + AmountAdded(Tail(calls), f)

\* C35: for a streaming body both consumers have read, the amount added to
\* the output_tokens counter is the completion count set on the span
\* (nothing added when the span has none).
C35_OutputTokensMatchSpan ==
    \A calls \in sse.calls : \A attrs \in sse.attrs :
        AmountAdded(calls, "add_output_tokens") =
            (IF attrs.completion = None THEN 0 ELSE CHOOSE n \in attrs.completion : TRUE)

(***************************************************************************)
(* SpecMode: handle_messages in two steps, the load of the mode into       *)
(* current_mode and the match on it, so that PUT /api/mode on another      *)
(* worker thread can run between them.                                     *)
(***************************************************************************)
\* handle_messages up to the load of the mode into current_mode.
MessagesRead(r, headers, body) ==
    /\ reqs[r].pc = "new"
    /\ \E rw \in {rewrite_request_body(body, config.model_override)} :
       \E rewritten \in {IF rw.ok THEN rw.bytes ELSE body} :
       \E parsed \in {IF rewritten.kind = "invalid" THEN None ELSE Some(rewritten)} :
       \E model \in {as_str(Get(rewritten, "model"))} :
       \E streaming \in {as_bool(Get(rewritten, "stream"))} :
       \E report \in {{validate_request(rewritten, value) : value \in parsed}} :
       \E current_mode \in {get(mode)} :
          /\ stats' = inc_requests(stats)
          /\ reqs' = [reqs EXCEPT ![r] = [@ EXCEPT
                     !.headers = headers, !.client_body = body, !.body = rewritten,
                     !.correlation_id = generate_id(r),
                     !.model = IF model # {} THEN CHOOSE x \in model : TRUE ELSE "unknown",
                     !.is_streaming = IF streaming # {} THEN CHOOSE x \in streaming : TRUE
                                      ELSE FALSE,
                     !.request_attrs = (parsed # None),
                     !.report = report,
                     !.mode = Some(current_mode),
                     !.pc = "routing"]]
    /\ UNCHANGED <<mode, config, permits, tasks, sse, admin, tracing_enabled, snap>>

\* The match of handle_messages with the forward chosen by a second load of
\* the mode.
MessagesRoute_reads_again(r) ==
    /\ reqs[r].pc = "routing"
    /\ \E current_mode \in reqs[r].mode :
          /\ IF current_mode = Compare
             THEN dispatch(r, reqs[r].body, reqs[r].correlation_id)
             ELSE UNCHANGED tasks
          /\ reqs' = [reqs EXCEPT ![r] = route(@, get(mode))]
    /\ UNCHANGED <<mode, config, permits, stats, sse, admin, tracing_enabled, snap>>

\* The match of handle_messages on current_mode: the compare dispatch and the
\* forward (or the 403), up to the await of the send.
MessagesRoute(r) ==
    /\ reqs[r].pc = "routing"
    /\ \E current_mode \in reqs[r].mode :
          /\ IF current_mode = Compare
             THEN dispatch(r, reqs[r].body, reqs[r].correlation_id)
             ELSE UNCHANGED tasks
          /\ reqs' = [reqs EXCEPT ![r] = route(@, current_mode)]
    /\ UNCHANGED <<mode, config, permits, stats, sse, admin, tracing_enabled, snap>>

InitMode == InitServer({1, 2}, {c \in Configs : c.model_override = None})

NextMode ==
    \/ \E r \in DOMAIN reqs : MessagesRead(r, <<>>, StreamingBody)
    \/ \E r \in DOMAIN reqs : MessagesRoute(r)
    \/ \E r \in DOMAIN reqs, res \in {SendTimeout, SendOk(200, UpstreamHeaders)} :
            ForwardResult(r, res)
    \/ \E r \in DOMAIN reqs : PollShort(r)
    \/ \E r \in DOMAIN tasks : CompareAcquire(r)
    \/ \E r \in DOMAIN tasks, res \in {SendTimeout, SendOk(200, <<>>)} : CompareResult(r, res)
    \/ \E r \in DOMAIN tasks, read \in CompareReads : CompareBody(r, read)
    \/ \E m \in ProxyModes : HandleSetMode(Some(m))

SpecMode == InitMode /\ [][NextMode]_vars

\* The upstreams a request's primary was sent to.
SentTo(r) == {reqs[r].upstream[i].dest : i \in 1..Len(reqs[r].upstream)}

\* C36: a /v1/messages request loads the mode once and is routed by that
\* value whatever PUT /api/mode does meanwhile: the value it carries is the
\* one in the register at its read and never changes afterwards; it never
\* both dispatches a compare task and forwards to the target, never forwards
\* to both the target and the passthrough, and its forward goes where the
\* value read says; a mode change leaves every request that has already
\* read the mode, and its compare task, as they were.
C36_ModeReadOnce ==
    /\ [](\A r \in DOMAIN reqs :
            /\ ~(tasks[r].spawns > 0 /\ "target" \in SentTo(r))
            /\ ~("target" \in SentTo(r) /\ "passthrough" \in SentTo(r))
            /\ tasks[r].spawns > 0 => reqs[r].mode = Some(Compare)
            /\ "target" \in SentTo(r) => reqs[r].mode = Some(TargetOnly)
            /\ "passthrough" \in SentTo(r) =>
                    reqs[r].mode \in {Some(Compare), Some(AnthropicOnly)})
    /\ [][\A r \in DOMAIN reqs :
            /\ (reqs[r].mode = None /\ reqs'[r].mode # None) =>
                    reqs'[r].mode = Some(get(mode))
            /\ reqs[r].mode # None => reqs'[r].mode = reqs[r].mode
            /\ (reqs[r].mode # None /\ get(mode') # get(mode)) =>
                    reqs'[r] = reqs[r] /\ tasks'[r] = tasks[r]]_vars

\* C36 witness: the mode was changed between a request's read (compare) and
\* its routing, and the request went to the passthrough while a request that
\* read afterwards went to the target.
C36_Witness ==
    \E r, q \in DOMAIN reqs :
        /\ reqs[r].mode = Some(Compare) /\ reqs[q].mode = Some(TargetOnly)
        /\ reqs[r].pc = "sent" /\ SentTo(r) = {"passthrough"} /\ tasks[r].spawns = 1
        /\ reqs[q].pc = "done" /\ SentTo(q) = {"target"} /\ tasks[q].spawns = 0
        /\ get(mode) = TargetOnly


\* C37: the client response of a successful forward, built by build_response
\* or by build_response_simple, carries exactly one x-shadow-request-id
\* value, the correlation ID of the request, whatever headers the upstream
\* response has.
C37_OneCorrelationValue ==
    \A r \in DOMAIN reqs :
        \A result \in reqs[r].result :
            result.kind = "ok" =>
                \A i \in 1..Len(reqs[r].resp) :
                    LET values == Values(reqs[r].resp[i].headers, CORRELATION_HEADER)
                    IN  Len(values) = 1 /\ values[1] = reqs[r].correlation_id


\* The requests handled while the mode read was anthropic-only and the
\* configuration does not allow it.
Gated == {r \in DOMAIN reqs :
            reqs[r].mode = Some(AnthropicOnly) /\ ~config.anthropic_only_allowed}

\* C38: when anthropic_only_allowed is false and the mode is anthropic-only,
\* no request of any route, /v1/messages or catch-all, is sent to the
\* passthrough upstream.
C38_GateCoversEveryRoute ==
    \A r \in Gated : SentTo(r) = {} /\ reqs[r].raw = <<>>

\* C38 as amended: when anthropic_only_allowed is false and the mode is
\* anthropic-only, no /v1/messages request is sent to any upstream, while a
\* catch-all request whose body can be read is sent once to the passthrough
\* upstream, as in compare mode.
C38_GateCoversMessagesOnly ==
    \A r \in Gated :
        /\ reqs[r].fallback = None => SentTo(r) = {} /\ reqs[r].raw = <<>>
        /\ \A request \in reqs[r].fallback :
              /\ SentTo(r) = {}
              /\ Len(reqs[r].raw) = (IF request.readable THEN 1 ELSE 0)
              /\ \A i \in 1..Len(reqs[r].raw) : reqs[r].raw[i].dest = "passthrough"

\* C38 witness: with anthropic-only mode not allowed, a /v1/messages request
\* was answered 403 and a catch-all request was forwarded and answered.
C38_Witness ==
    \E r, q \in Gated :
        /\ reqs[r].fallback = None /\ reqs[r].pc = "done" /\ reqs[r].resp[1].status = 403
        /\ reqs[q].fallback # None /\ reqs[q].pc = "done" /\ Len(reqs[q].raw) = 1
        /\ reqs[q].result = Some(SendOk(200, <<>>))


\* C39: a compare task is dropped only when the semaphore is full: when a
\* task's acquire runs while fewer than max_concurrent compare requests are
\* in flight it takes a permit and sends exactly one POST, and when it runs
\* while max_concurrent are in flight it is dropped and sends nothing; so
\* with max_concurrent = 1 the tasks whose acquire runs while the first
\* compare request is in flight are all dropped.
C39_DroppedOnlyWhenFull ==
    [][\A r \in DOMAIN tasks :
          (tasks[r].pc = "spawned" /\ tasks'[r].pc # "spawned") =>
              IF Cardinality(InFlight) < MaxConcurrent
              THEN /\ tasks'[r].pc = "sending"
                   /\ Len(tasks'[r].sent) = 1
                   /\ \A q \in DOMAIN tasks \ {r} : tasks'[q] = tasks[q]
              ELSE /\ tasks'[r].pc = "dropped"
                   /\ tasks'[r].sent = <<>>
                   /\ InFlight # {}]_vars

\* C39 witness: every permit is taken by a compare request in flight, and
\* a task whose acquire ran meanwhile was dropped without sending.
C39_Witness ==
    /\ Cardinality(InFlight) = MaxConcurrent
    /\ \A q \in InFlight : Len(tasks[q].sent) = 1
    /\ \E r \in DOMAIN tasks : tasks[r].pc = "dropped" /\ tasks[r].sent = <<>>
    /\ Cardinality({r \in DOMAIN tasks : tasks[r].sent # <<>>}) = MaxConcurrent

====
